---- MODULE Spec2Model ----
(***************************************************************************)
(* Verification model of the listory-api quota ledger (lib/rate-limit.ts), *)
(* the tier gate (lib/supabase.ts) and the AI endpoints that compose them  *)
(* (app/api/ai/{ocr,analyze,email,coach}/route.ts and the transcription    *)
(* start handler).                                                         *)
(***************************************************************************)
EXTENDS Integers, Sequences, FiniteSets, Bags, TLC

VARIABLES
    ledger,     \* table api_usage: a bag of rows [user_id, api_type, month_year]
    jobs,       \* table transcription_jobs: a set of rows [job_id, user_id, status]
    provJobs,   \* job ids the transcription provider has created
    now,        \* the wall clock, in ticks
    profiles,   \* table profiles: user id -> [tier, trial_ends_at]
    req,        \* the requests being handled: slot -> handler frame
    served,     \* number of requests accepted by the server so far
    lib,        \* the last direct call of a library function and its result
    bucket,     \* the storage bucket: the set of object keys present
    threads,    \* the assistant threads that exist at the provider
    threadCleanupSuccessCount,  \* module counter of thread deletions done
    threadCleanupFailureCount   \* module counter of thread deletions failed

\* the state of the assistant query module and of its provider
assistantVars ==
    <<threads, threadCleanupSuccessCount, threadCleanupFailureCount>>

vars == <<ledger, jobs, provJobs, now, profiles, req, served, lib, bucket,
          assistantVars>>

\* the assistant query module as loaded: no thread, both counters 0
NoThreads ==
    /\ threads = {}
    /\ threadCleanupSuccessCount = 0
    /\ threadCleanupFailureCount = 0

----------------------------------------------------------------------------
(* Bounds of the exploration *)

MaxNow == 3             \* the clock runs from tick 0 to this tick
TicksPerMonth == 2      \* clock ticks in one calendar month
NumReqs == 2            \* handler frames that can be in flight together
MaxRequests == 2        \* requests the sequential server accepts in one run
MaxLibRecords == 2      \* direct recordUsage calls in one run
OtherUsed == 1          \* rows pre-existing for the other user / month / api

----------------------------------------------------------------------------
(* Values *)

Users == {"u1", "u2"}
Caller == "u1"
OtherUser == "u2"

\* profile.tier as stored; "" stands for a null or empty tier (both falsy)
StoredTiers == {"", "free", "basic", "pro", "business"}

\* profile.trial_ends_at: <<>> is null, <<t>> is the instant t
TrialEnds == {<<>>, <<1>>, <<2>>}

Max(a, b) == IF a >= b THEN a ELSE b

\* new Date().toISOString().slice(0, 7): the YYYY-MM bucket of an instant,
\* as <<year, month>>.  Tick 0 lies in November 2026.
MonthYear(t) ==
    LET m == 10 + (t \div TicksPerMonth)
    IN  <<2026 + (m \div 12), (m % 12) + 1>>

PrevMonth == <<2026, 10>>

----------------------------------------------------------------------------
(* lib/rate-limit.ts *)

RATE_LIMITS ==
    [a \in {"transcribe", "ocr", "analyze", "email", "deepgram_token"} |->
        CASE a = "transcribe"     -> [basic |-> 10, pro |-> 0, business |-> 0]
          [] a = "ocr"            -> [basic |-> 50, pro |-> 0, business |-> 0]
          [] a = "analyze"        -> [basic |-> 20, pro |-> 0, business |-> 0]
          [] a = "email"          -> [basic |-> 30, pro |-> 0, business |-> 0]
          [] a = "deepgram_token" -> [basic |-> 0,  pro |-> 0, business |-> 0]]

\* config.tierLimits[tier] || 0
TierLimit(apiType, tier) ==
    IF tier \in DOMAIN RATE_LIMITS[apiType] THEN RATE_LIMITS[apiType][tier] ELSE 0

UsageRow(userId, apiType, monthYear) ==
    [user_id |-> userId, api_type |-> apiType, month_year |-> monthYear]

RECURSIVE SumCopies(_, _)
SumCopies(bag, rows) ==
    IF rows = {} THEN 0
    ELSE LET r == CHOOSE x \in rows : TRUE
         IN  CopiesIn(r, bag) + SumCopies(bag, rows \ {r})

\* mutant: the count query without its month_year filter
CountUsageAllMonths(led, userId, apiType, monthYear) ==
    SumCopies(led, {r \in BagToSet(led) :
                        r.user_id = userId /\ r.api_type = apiType})

\* mutant: the count query without its user_id filter
CountUsageAllUsers(led, userId, apiType, monthYear) ==
    SumCopies(led, {r \in BagToSet(led) :
                        r.api_type = apiType /\ r.month_year = monthYear})

\* select('*', {count: 'exact', head: true}).eq(user_id).eq(api_type).eq(month_year)
CountUsage(led, userId, apiType, monthYear) ==
    SumCopies(led, {r \in BagToSet(led) :
                        /\ r.user_id = userId
                        /\ r.api_type = apiType
                        /\ r.month_year = monthYear})

\* Outcomes of one statement sent to the usage store: the awaited query
\* builder resolves with a result or with an error object.
StoreOutcomes == {"ok", "error"}

Unlimited == [allowed |-> TRUE, remaining |-> -1, limit |-> 0]

\* mutant: the limit test written with <= instead of <
CheckRateLimitOffByOne(led, userId, tier, apiType, t, outcome) ==
    IF apiType \notin DOMAIN RATE_LIMITS THEN Unlimited
    ELSE LET limit == TierLimit(apiType, tier)
         IN  IF limit = 0 THEN Unlimited
             ELSE IF outcome = "error"
                  THEN [allowed |-> FALSE, remaining |-> 0, limit |-> limit]
                  ELSE LET used == CountUsage(led, userId, apiType, MonthYear(t))
                       IN  [allowed   |-> used <= limit,
                            remaining |-> Max(0, limit - used),
                            limit     |-> limit]

\* mutant: a store error read as "no usage yet" (fail open)
CheckRateLimitFailOpen(led, userId, tier, apiType, t, outcome) ==
    IF apiType \notin DOMAIN RATE_LIMITS THEN Unlimited
    ELSE LET limit == TierLimit(apiType, tier)
         IN  IF limit = 0 THEN Unlimited
             ELSE LET used == IF outcome = "error" THEN 0
                              ELSE CountUsage(led, userId, apiType, MonthYear(t))
                  IN  [allowed   |-> used < limit,
                       remaining |-> Max(0, limit - used),
                       limit     |-> limit]

\* mutant: the store is queried before the cap is looked at
CheckRateLimitStoreFirst(led, userId, tier, apiType, t, outcome) ==
    IF outcome = "error"
    THEN [allowed |-> FALSE, remaining |-> 0,
          limit |-> IF apiType \in DOMAIN RATE_LIMITS THEN TierLimit(apiType, tier)
                    ELSE 0]
    ELSE IF apiType \notin DOMAIN RATE_LIMITS THEN Unlimited
    ELSE LET limit == TierLimit(apiType, tier)
         IN  IF limit = 0 THEN Unlimited
             ELSE LET used == CountUsage(led, userId, apiType, MonthYear(t))
                  IN  [allowed   |-> used < limit,
                       remaining |-> Max(0, limit - used),
                       limit     |-> limit]

CheckRateLimit(led, userId, tier, apiType, t, outcome) ==
    IF apiType \notin DOMAIN RATE_LIMITS THEN Unlimited
    ELSE LET limit == TierLimit(apiType, tier)
         IN  IF limit = 0 THEN Unlimited
             ELSE IF outcome = "error"
                  THEN [allowed |-> FALSE, remaining |-> 0, limit |-> limit]
                  ELSE LET used == CountUsage(led, userId, apiType, MonthYear(t))
                       IN  [allowed   |-> used < limit,
                            remaining |-> Max(0, limit - used),
                            limit     |-> limit]

\* mutant: the row is written twice
RecordUsageTwice(led, userId, apiType, t, outcome) ==
    IF outcome = "error" THEN led
    ELSE led (+) SetToBag({UsageRow(userId, apiType, MonthYear(t))})
             (+) SetToBag({UsageRow(userId, apiType, MonthYear(t))})

\* The ledger after recordUsage: one row in the current month bucket, or
\* nothing when the insert is refused (the error is logged and dropped).
RecordUsage(led, userId, apiType, t, outcome) ==
    IF outcome = "error" THEN led
    ELSE led (+) SetToBag({UsageRow(userId, apiType, MonthYear(t))})

\* select('api_type').eq(user_id).eq(month_year): the rows of the user in
\* the month bucket
UsageData(led, userId, monthYear) ==
    {r \in BagToSet(led) : r.user_id = userId /\ r.month_year = monthYear}

\* data.filter((d) => d.api_type === apiType).length || 0
UsedOf(led, data, apiType) ==
    SumCopies(led, {r \in data : r.api_type = apiType})

\* one entry of the stats mapping
StatsEntry(used, limit) ==
    [used      |-> used,
     limit     |-> IF limit = 0 THEN -1 ELSE limit,
     remaining |-> IF limit = 0 THEN -1 ELSE Max(0, limit - used)]

\* mutant: a failed query answered with zero usage for every tag
GetUsageStatsZeroOnError(led, userId, tier, t, outcome) ==
    LET data == IF outcome = "error" THEN {}
                ELSE UsageData(led, userId, MonthYear(t))
    IN  [a \in DOMAIN RATE_LIMITS |->
            StatsEntry(UsedOf(led, data, a), TierLimit(a, tier))]

\* mutant: the stats query without its month_year filter
GetUsageStatsAllMonths(led, userId, tier, t, outcome) ==
    IF outcome = "error" THEN <<>>
    ELSE LET data == {r \in BagToSet(led) : r.user_id = userId}
         IN  [a \in DOMAIN RATE_LIMITS |->
                 StatsEntry(UsedOf(led, data, a), TierLimit(a, tier))]

\* getUsageStats: the empty mapping (the function with no argument, <<>>)
\* when the query fails, else one entry per key of RATE_LIMITS
GetUsageStats(led, userId, tier, t, outcome) ==
    IF outcome = "error" THEN <<>>
    ELSE LET data == UsageData(led, userId, MonthYear(t))
         IN  [a \in DOMAIN RATE_LIMITS |->
                 StatsEntry(UsedOf(led, data, a), TierLimit(a, tier))]

----------------------------------------------------------------------------
(* lib/supabase.ts *)

\* Outcomes of getUserProfile: the profile row, or an error from the second
\* auth.getUser() or from the profiles query.
ProfileOutcomes == {"ok", "auth_error", "profile_error"}

GetUserProfile(profs, userId, outcome) ==
    CASE outcome = "ok"            -> [profile |-> <<profs[userId]>>, error |-> ""]
      [] outcome = "auth_error"    -> [profile |-> <<>>, error |-> "Unauthorized"]
      [] outcome = "profile_error" -> [profile |-> <<>>, error |-> "profile query failed"]

\* profile.trial_ends_at && new Date(profile.trial_ends_at) > new Date()
IsInTrial(profile, t) ==
    /\ profile.trial_ends_at # <<>>
    /\ profile.trial_ends_at[1] > t

\* mutant: the trial promotion left out
CheckUserTierNoTrial(profs, userId, requiredTiers, t, outcome) ==
    LET got == GetUserProfile(profs, userId, outcome)
    IN  IF got.error # "" \/ got.profile = <<>>
        THEN [allowed |-> FALSE, profile |-> <<>>, error |-> got.error]
        ELSE LET profile == got.profile[1]
                 allowed == profile.tier \in requiredTiers
             IN  [allowed |-> allowed,
                  profile |-> <<profile>>,
                  error   |-> IF allowed THEN "" ELSE "Upgrade required"]

\* mutant: the trial test written with >= instead of >
CheckUserTierTrialInclusive(profs, userId, requiredTiers, t, outcome) ==
    LET got == GetUserProfile(profs, userId, outcome)
    IN  IF got.error # "" \/ got.profile = <<>>
        THEN [allowed |-> FALSE, profile |-> <<>>, error |-> got.error]
        ELSE LET profile == got.profile[1]
                 inTrial == /\ profile.trial_ends_at # <<>>
                            /\ profile.trial_ends_at[1] >= t
                 effectiveTier == IF inTrial THEN "pro" ELSE profile.tier
                 allowed == effectiveTier \in requiredTiers
             IN  [allowed |-> allowed,
                  profile |-> <<profile>>,
                  error   |-> IF allowed THEN "" ELSE "Upgrade required"]

CheckUserTier(profs, userId, requiredTiers, t, outcome) ==
    LET got == GetUserProfile(profs, userId, outcome)
    IN  IF got.error # "" \/ got.profile = <<>>
        THEN [allowed |-> FALSE, profile |-> <<>>, error |-> got.error]
        ELSE LET profile == got.profile[1]
                 effectiveTier == IF IsInTrial(profile, t) THEN "pro" ELSE profile.tier
                 allowed == effectiveTier \in requiredTiers
             IN  [allowed |-> allowed,
                  profile |-> <<profile>>,
                  error   |-> IF allowed THEN "" ELSE "Upgrade required"]

----------------------------------------------------------------------------
(* Direct calls of the ledger functions: checkRateLimit and recordUsage are  *)
(* applied to one (user, tier, feature) drawn at the start, over a store    *)
(* that already holds rows of that user, of another user, of another        *)
(* feature and of the previous month.                                       *)

ApiArgs == DOMAIN RATE_LIMITS \cup {"coach"}
TierArgs == {"free", "basic", "pro", "business"}

Copies(row, n) == IF n = 0 THEN EmptyBag ELSE [x \in {row} |-> n]

OtherApi(apiType) == IF apiType = "ocr" THEN "email" ELSE "ocr"

\* The largest monthly cap any tier has for the feature (0 when unknown)
TopCap(apiType) ==
    IF apiType \notin DOMAIN RATE_LIMITS THEN 0
    ELSE Max(TierLimit(apiType, "basic"),
             Max(TierLimit(apiType, "pro"), TierLimit(apiType, "business")))

\* Rows of api_usage present before the run: n rows of the caller for the
\* feature in the current month, and rows that differ from them in exactly
\* one column.
Prefill(apiType, n) ==
    Copies(UsageRow(Caller, apiType, MonthYear(0)), n)
    (+) Copies(UsageRow(OtherUser, apiType, MonthYear(0)), OtherUsed)
    (+) Copies(UsageRow(Caller, OtherApi(apiType), MonthYear(0)), OtherUsed)
    (+) Copies(UsageRow(Caller, apiType, PrevMonth), OtherUsed)

\* Rows of the ledger that carry exactly these three column values
RowsOf(led, userId, apiType, monthYear) ==
    CopiesIn(UsageRow(userId, apiType, monthYear), led)

NoProfiles == [u \in Users |-> [tier |-> "pro", trial_ends_at |-> <<>>]]

InitLedger ==
    /\ \E a \in ApiArgs, tier \in TierArgs :
         \E n \in 0 .. (TopCap(a) + 1) :
            /\ ledger = Prefill(a, n)
            /\ lib = [op |-> "none", user |-> Caller, tier |-> tier, api |-> a,
                      month |-> MonthYear(0), outcome |-> "ok", before |-> n,
                      result |-> <<>>, records |-> 0, prev |-> <<>>]
    /\ now = 0
    /\ profiles = NoProfiles
    /\ jobs = {}
    /\ provJobs = {}
    /\ req = <<>>
    /\ served = 0
    /\ bucket = {}
    /\ NoThreads

LibSummary == [op |-> lib.op, month |-> lib.month, outcome |-> lib.outcome,
               before |-> lib.before]

LibCheckRateLimit(outcome) ==
    /\ lib' = [lib EXCEPT
                 !.op = "check",
                 !.month = MonthYear(now),
                 !.outcome = outcome,
                 !.before = RowsOf(ledger, lib.user, lib.api, MonthYear(now)),
                 !.result = <<CheckRateLimit(ledger, lib.user, lib.tier, lib.api,
                                             now, outcome)>>,
                 !.prev = <<LibSummary>>]
    /\ UNCHANGED <<assistantVars, ledger, jobs, provJobs, now, profiles, req, served, bucket>>

LibRecordUsage(outcome) ==
    /\ lib.records < MaxLibRecords
    /\ ledger' = RecordUsage(ledger, lib.user, lib.api, now, outcome)
    /\ lib' = [lib EXCEPT
                 !.op = "record",
                 !.month = MonthYear(now),
                 !.outcome = outcome,
                 !.before = RowsOf(ledger, lib.user, lib.api, MonthYear(now)),
                 !.result = <<>>,
                 !.records = @ + 1,
                 !.prev = <<LibSummary>>]
    /\ UNCHANGED <<assistantVars, jobs, provJobs, now, profiles, req, served, bucket>>

Tick ==
    /\ now < MaxNow
    /\ now' = now + 1
    /\ UNCHANGED <<assistantVars, ledger, jobs, provJobs, profiles, req, served, lib, bucket>>

NextLedger ==
    \/ \E outcome \in StoreOutcomes : LibCheckRateLimit(outcome)
    \/ \E outcome \in StoreOutcomes : LibRecordUsage(outcome)
    \/ Tick

SpecLedger == InitLedger /\ [][NextLedger]_vars

\* A direct call of getUsageStats for the caller and the tier drawn
LibGetUsageStats(outcome) ==
    /\ lib' = [lib EXCEPT
                 !.op = "stats",
                 !.month = MonthYear(now),
                 !.outcome = outcome,
                 !.before = RowsOf(ledger, lib.user, lib.api, MonthYear(now)),
                 !.result = <<GetUsageStats(ledger, lib.user, lib.tier, now,
                                            outcome)>>,
                 !.prev = <<LibSummary>>]
    /\ UNCHANGED <<assistantVars, ledger, jobs, provJobs, now, profiles, req, served, bucket>>

NextStats ==
    \/ \E outcome \in StoreOutcomes : LibGetUsageStats(outcome)
    \/ \E outcome \in StoreOutcomes : LibCheckRateLimit(outcome)
    \/ \E outcome \in StoreOutcomes : LibRecordUsage(outcome)
    \/ Tick

SpecStats == InitLedger /\ [][NextStats]_vars

----------------------------------------------------------------------------
(* Direct calls of checkUserTier for the caller, over every stored tier and *)
(* trial expiry, with the tier lists the handlers and the tests pass.       *)

RequiredTierSets ==
    {{"basic", "pro", "business"}, {"pro", "business"}, {"pro"}, {"basic", "pro"}}

InitTier ==
    /\ \E tier \in StoredTiers, trial \in TrialEnds :
         profiles = [u \in Users |->
                        IF u = Caller THEN [tier |-> tier, trial_ends_at |-> trial]
                        ELSE NoProfiles[u]]
    /\ lib = [op |-> "none", user |-> Caller, required |-> {}, at |-> 0,
              outcome |-> "ok", result |-> <<>>]
    /\ ledger = EmptyBag
    /\ now = 0
    /\ jobs = {}
    /\ provJobs = {}
    /\ req = <<>>
    /\ served = 0
    /\ bucket = {}
    /\ NoThreads

LibCheckUserTier(requiredTiers, outcome) ==
    /\ lib' = [lib EXCEPT
                 !.op = "tier",
                 !.required = requiredTiers,
                 !.at = now,
                 !.outcome = outcome,
                 !.result = <<CheckUserTier(profiles, lib.user, requiredTiers,
                                            now, outcome)>>]
    /\ UNCHANGED <<assistantVars, ledger, jobs, provJobs, now, profiles, req, served, bucket>>

NextTier ==
    \/ \E requiredTiers \in RequiredTierSets, outcome \in ProfileOutcomes :
          LibCheckUserTier(requiredTiers, outcome)
    \/ Tick

SpecTier == InitTier /\ [][NextTier]_vars

----------------------------------------------------------------------------
(* The AI endpoints: app/api/ai/{ocr,analyze,email,coach}/route.ts and the  *)
(* transcription start handler.  A frame is one invocation of POST; each    *)
(* action is the code between two awaits.                                   *)

Reqs == 1 .. NumReqs

Endpoints == {"ocr", "analyze", "email", "coach", "transcribe"}
QuotaEndpoints == {"ocr", "analyze", "email", "transcribe"}

\* the second argument of checkUserTier in each handler
RequiredTiers(ep) ==
    IF ep = "coach" THEN {"pro", "business"} ELSE {"basic", "pro", "business"}

\* maxRetries of the analyze handler
maxRetries == 2

\* request.json() and requestSchema.safeParse(body)
BodyKinds == {"valid", "schema_invalid", "malformed"}

\* Errors a provider call can throw: HTTP status (0 when there is none), the
\* error code ("" when there is none) and which of the substrings the
\* handlers look for the message contains.
ProviderErrors ==
    { [status |-> 429, code |-> "rate_limit_exceeded", msg |-> "rate_limit"],
      [status |-> 429, code |-> "rate_limit_exceeded", msg |-> "other"],
      [status |-> 401, code |-> "invalid_api_key",     msg |-> "invalid_api_key"],
      [status |-> 400, code |-> "",                    msg |-> "image"],
      [status |-> 500, code |-> "",                    msg |-> "other"],
      [status |-> 0,   code |-> "",                    msg |-> "other"] }

\* the SyntaxError request.json() throws on a body that is not JSON
BodySyntaxError == [status |-> 0, code |-> "", msg |-> "other"]

\* What a provider call that returns can carry
ProviderReturns(ep) ==
    CASE ep = "ocr"        -> {"ok", "empty", "unparseable"}
      [] ep = "analyze"    -> {"ok", "empty", "unparseable", "schema_invalid"}
      [] ep = "email"      -> {"ok", "empty", "unparseable", "schema_invalid"}
      [] ep = "coach"      -> {"ok", "empty", "unparseable", "schema_invalid",
                               "no_tip", "duplicate"}
      [] ep = "transcribe" -> {"ok"}

StatusString(n) == IF n = 400 THEN "400" ELSE IF n = 401 THEN "401"
                   ELSE IF n = 429 THEN "429" ELSE "500"

Success(status, data) ==
    [status |-> status, success |-> TRUE, code |-> "", data |-> data,
     details |-> FALSE, extra |-> <<>>]

Failure(status, code) ==
    [status |-> status, success |-> FALSE, code |-> code, data |-> "absent",
     details |-> FALSE, extra |-> <<>>]

\* the 429 of the handlers' own quota: error.remaining = 0, error.limit = limit
QuotaExceeded(limit) ==
    [Failure(429, "RATE_LIMIT_EXCEEDED") EXCEPT !.extra = <<0, limit>>]

\* the 400 of a body that fails requestSchema, with the flattened details
ValidationError == [Failure(400, "VALIDATION_ERROR") EXCEPT !.details = TRUE]

\* mutant: the coach handler's catch blocks answer with an error envelope
CatchAllCoachError(ep, e) ==
    CASE ep = "ocr" ->
            IF e.msg = "rate_limit" THEN Failure(429, "RATE_LIMIT")
            ELSE IF e.msg = "invalid_api_key" THEN Failure(500, "CONFIG_ERROR")
            ELSE IF e.msg = "image" THEN Failure(400, "IMAGE_ERROR")
            ELSE Failure(500, "SERVER_ERROR")
      [] ep = "analyze" ->
            IF e.msg = "rate_limit" THEN Failure(429, "RATE_LIMIT")
            ELSE Failure(500, IF e.code # "" THEN e.code
                              ELSE IF e.status # 0 THEN StatusString(e.status)
                              ELSE "SERVER_ERROR")
      [] ep = "email" ->
            IF e.msg = "rate_limit" THEN Failure(429, "RATE_LIMIT")
            ELSE Failure(500, "SERVER_ERROR")
      [] ep = "coach" -> Failure(500, "SERVER_ERROR")
      [] ep = "transcribe" -> Failure(500, "SERVER_ERROR")

\* The outer catch block of each handler, for a thrown error e
CatchAll(ep, e) ==
    CASE ep = "ocr" ->
            IF e.msg = "rate_limit" THEN Failure(429, "RATE_LIMIT")
            ELSE IF e.msg = "invalid_api_key" THEN Failure(500, "CONFIG_ERROR")
            ELSE IF e.msg = "image" THEN Failure(400, "IMAGE_ERROR")
            ELSE Failure(500, "SERVER_ERROR")
      [] ep = "analyze" ->
            IF e.msg = "rate_limit" THEN Failure(429, "RATE_LIMIT")
            ELSE Failure(500, IF e.code # "" THEN e.code
                              ELSE IF e.status # 0 THEN StatusString(e.status)
                              ELSE "SERVER_ERROR")
      [] ep = "email" ->
            IF e.msg = "rate_limit" THEN Failure(429, "RATE_LIMIT")
            ELSE Failure(500, "SERVER_ERROR")
      [] ep = "coach" -> Success(200, "null")
      [] ep = "transcribe" -> Failure(500, "SERVER_ERROR")

\* The response to a provider call that returned something the handler
\* does not accept
RejectedPayload(ep, payload) ==
    IF ep = "coach" THEN Success(200, "null")
    ELSE CASE payload = "empty"          -> Failure(500, "AI_ERROR")
           [] payload = "unparseable"    -> Failure(500, "PARSE_ERROR")
           [] payload = "schema_invalid" ->
                IF ep = "analyze"
                THEN [Failure(500, "PARSE_ERROR") EXCEPT !.details = TRUE]
                ELSE Failure(500, "VALIDATION_ERROR")

\* The success response of each handler, sent after recordUsage returns
Accepted(ep) == IF ep = "transcribe" THEN Success(202, "result")
                ELSE Success(200, "result")

\* mutant: a refused usage insert turned into an error response
AfterRecordFailing(ep, outcome) ==
    IF outcome = "error" THEN CatchAll(ep, [status |-> 0, code |-> "", msg |-> "other"])
    ELSE Accepted(ep)

\* The response after `await recordUsage(...)`: recordUsage returns normally
\* whether or not the insert was accepted.
AfterRecord(ep, outcome) == Accepted(ep)

\* mutant: the body is validated only after the provider call
AfterStepValidateLate(ep, step) ==
    CASE step = "auth"     -> "tier"
      [] step = "tier"     -> IF ep = "coach" THEN "provider" ELSE "quota"
      [] step = "quota"    -> "provider"
      [] step = "provider" -> "validate"
      [] step = "validate" -> IF ep = "transcribe" THEN "persist" ELSE "record"
      [] step = "persist"  -> "record"

\* mutant: usage is recorded before the provider is called
AfterStepRecordEarly(ep, step) ==
    CASE step = "auth"     -> "tier"
      [] step = "tier"     -> IF ep = "coach" THEN "validate" ELSE "quota"
      [] step = "quota"    -> "validate"
      [] step = "validate" -> "record"
      [] step = "provider" -> IF ep = "transcribe" THEN "persist" ELSE "record"
      [] step = "persist"  -> "record"

\* The statement a handler reaches when a step has succeeded
AfterStep(ep, step) ==
    CASE step = "auth"     -> "tier"
      [] step = "tier"     -> IF ep = "coach" THEN "validate" ELSE "quota"
      [] step = "quota"    -> "validate"
      [] step = "validate" -> "provider"
      [] step = "provider" -> IF ep = "transcribe" THEN "persist" ELSE "record"
      [] step = "persist"  -> "record"

\* mutant: a coaching call that yields no tip still counts as a use
CoachRejectsRecording(payload) == payload \notin {"ok", "no_tip"}

\* The payloads after which the coach handler returns data: null
CoachRejects(payload) == payload # "ok"

\* The image_url or audio_url of a request body: whether it points into the
\* S3 bucket, and the object key its path spells
ExternalUrl == [s3 |-> FALSE, path |-> <<>>]
BucketUrl(key) == [s3 |-> TRUE, path |-> key]

\* decodeURIComponent(match[3]), decodeURIComponent(url.pathname.slice(1))
UrlKey(url) == url.path

\* the handlers that presign the object of a bucket URL for the provider
PresignEndpoints == {"ocr", "transcribe"}

IdleFrame(ep) ==
    [pc |-> "idle", ep |-> ep, trace |-> <<>>, tier |-> "", check |-> <<>>,
     seen |-> <<>>, attempt |-> 0, waits |-> <<>>, jobId |-> <<>>,
     stored |-> 0, recMonth |-> <<>>, size0 |-> 0, err |-> <<>>,
     url |-> ExternalUrl, signed |-> {}, resp |-> <<>>]

Entry(step, ok, outcome) == [step |-> step, ok |-> ok, outcome |-> outcome]

\* the frame after a step that ends the request with a response
Respond(f, entry, resp) ==
    [f EXCEPT !.pc = "done", !.trace = Append(@, entry), !.resp = <<resp>>]

\* the frame after a step that succeeded
Advance(f, entry) ==
    [f EXCEPT !.pc = AfterStep(f.ep, entry.step), !.trace = Append(@, entry)]

Busy(r) == req[r].pc \notin {"idle", "done"}

\* A request arrives; with sequential set, only while no other is in flight.
Start(r, sequential) ==
    /\ req[r].pc = "idle"
    /\ served < MaxRequests
    /\ sequential => \A q \in Reqs : req[q].pc = "idle"
    /\ req' = [req EXCEPT ![r] = [IdleFrame(req[r].ep) EXCEPT
                                    !.pc = "auth",
                                    !.size0 = BagCardinality(ledger)]]
    /\ served' = served + 1
    /\ UNCHANGED <<assistantVars, ledger, jobs, provJobs, now, profiles, lib, bucket>>

\* getAuthenticatedUser(request)
Authenticate(r, ok) ==
    /\ req[r].pc = "auth"
    /\ req' = [req EXCEPT ![r] =
                 IF ok THEN Advance(@, Entry("auth", TRUE, "ok"))
                 ELSE Respond(@, Entry("auth", FALSE, "unauthorized"),
                              Failure(401, "AUTH_ERROR"))]
    /\ UNCHANGED <<assistantVars, ledger, jobs, provJobs, now, profiles, served, lib, bucket>>

\* checkUserTier(request, [...])
TierGate(r, outcome) ==
    /\ req[r].pc = "tier"
    /\ LET res == CheckUserTier(profiles, Caller, RequiredTiers(req[r].ep), now, outcome)
       IN  req' = [req EXCEPT ![r] =
                     IF res.allowed
                     THEN [Advance(@, Entry("tier", TRUE, outcome))
                             EXCEPT !.tier = res.profile[1].tier]
                     ELSE Respond(@, Entry("tier", FALSE, outcome),
                                  Failure(403, "TIER_ERROR"))]
    /\ UNCHANGED <<assistantVars, ledger, jobs, provJobs, now, profiles, served, lib, bucket>>

\* mutant: the quota check made with the trial-promoted tier
QuotaCheckPromoted(r, outcome) ==
    /\ req[r].pc = "quota"
    /\ LET f == req[r]
           effectiveTier == IF IsInTrial(profiles[Caller], now) THEN "pro"
                            ELSE IF f.tier # "" THEN f.tier ELSE "basic"
           res == CheckRateLimit(ledger, Caller, effectiveTier, f.ep, now, outcome)
           g == [f EXCEPT !.check = <<res>>,
                          !.seen = <<[rows |-> RowsOf(ledger, Caller, f.ep, MonthYear(now)),
                                      month |-> MonthYear(now)]>>]
       IN  req' = [req EXCEPT ![r] =
                     IF res.allowed
                     THEN Advance(g, Entry("quota", TRUE, outcome))
                     ELSE Respond(g, Entry("quota", FALSE, outcome),
                                  QuotaExceeded(res.limit))]
    /\ UNCHANGED <<assistantVars, ledger, jobs, provJobs, now, profiles, served, lib, bucket>>

\* checkRateLimit(supabase, user.id, profile?.tier || 'basic', apiType)
QuotaCheck(r, outcome) ==
    /\ req[r].pc = "quota"
    /\ LET f == req[r]
           effectiveTier == IF f.tier # "" THEN f.tier ELSE "basic"
           res == CheckRateLimit(ledger, Caller, effectiveTier, f.ep, now, outcome)
           g == [f EXCEPT !.check = <<res>>,
                          !.seen = <<[rows |-> RowsOf(ledger, Caller, f.ep, MonthYear(now)),
                                      month |-> MonthYear(now)]>>]
       IN  req' = [req EXCEPT ![r] =
                     IF res.allowed
                     THEN Advance(g, Entry("quota", TRUE, outcome))
                     ELSE Respond(g, Entry("quota", FALSE, outcome),
                                  QuotaExceeded(res.limit))]
    /\ UNCHANGED <<assistantVars, ledger, jobs, provJobs, now, profiles, served, lib, bucket>>

\* request.json() and requestSchema.safeParse(body)
Validate(r, body) ==
    /\ req[r].pc = "validate"
    /\ req' = [req EXCEPT ![r] =
                 CASE body = "valid" ->
                        IF @.ep \in PresignEndpoints /\ @.url.s3
                        THEN [Advance(@, Entry("validate", TRUE, body))
                                EXCEPT !.pc = "presign"]
                        ELSE Advance(@, Entry("validate", TRUE, body))
                   [] body = "schema_invalid" ->
                        Respond(@, Entry("validate", FALSE, body), ValidationError)
                   [] body = "malformed" ->
                        Respond(@, Entry("validate", FALSE, body),
                                CatchAll(@.ep, BodySyntaxError))]
    /\ UNCHANGED <<assistantVars, ledger, jobs, provJobs, now, profiles, served, lib, bucket>>

\* The provider call returns: openai.chat.completions.create(...) followed by
\* the handler's checks of the content, or startTranscription(...).
ProviderReturn(r, payload) ==
    /\ req[r].pc = "provider"
    /\ payload \in ProviderReturns(req[r].ep)
    /\ LET f == req[r]
           accepted == IF f.ep = "coach" THEN ~CoachRejects(payload) ELSE payload = "ok"
           jobId == Cardinality(provJobs) + 1
       IN  /\ req' = [req EXCEPT ![r] =
                        IF accepted
                        THEN [Advance(f, Entry("provider", TRUE, payload)) EXCEPT
                                !.jobId = IF f.ep = "transcribe" THEN <<jobId>> ELSE <<>>]
                        ELSE Respond(f, Entry("provider", FALSE, payload),
                                     RejectedPayload(f.ep, payload))]
           /\ provJobs' = IF f.ep = "transcribe" THEN provJobs \cup {jobId} ELSE provJobs
    /\ UNCHANGED <<assistantVars, ledger, jobs, now, profiles, served, lib, bucket>>

\* mutant: the retry loop runs while attempt <= maxRetries + 1
ProviderThrowOneMore(r, e) ==
    /\ req[r].pc = "provider"
    /\ e \in ProviderErrors
    /\ LET f == req[r]
           entry == Entry("provider", FALSE, "throw")
           retry == /\ f.ep = "analyze"
                    /\ e.status \notin {401, 429}
                    /\ f.attempt < maxRetries + 1
       IN  req' = [req EXCEPT ![r] =
                     IF retry
                     THEN [f EXCEPT !.pc = "backoff", !.err = <<e>>,
                                    !.trace = Append(@, entry)]
                     ELSE [Respond(f, entry, CatchAll(f.ep, e))
                             EXCEPT !.err = <<e>>]]
    /\ UNCHANGED <<assistantVars, ledger, jobs, provJobs, now, profiles, served, lib, bucket>>

\* mutant: the retry loop without its test of err.status
ProviderThrowRetryAll(r, e) ==
    /\ req[r].pc = "provider"
    /\ e \in ProviderErrors
    /\ LET f == req[r]
           entry == Entry("provider", FALSE, "throw")
           retry == /\ f.ep = "analyze"
                    /\ f.attempt < maxRetries
       IN  req' = [req EXCEPT ![r] =
                     IF retry
                     THEN [f EXCEPT !.pc = "backoff", !.err = <<e>>,
                                    !.trace = Append(@, entry)]
                     ELSE [Respond(f, entry, CatchAll(f.ep, e))
                             EXCEPT !.err = <<e>>]]
    /\ UNCHANGED <<assistantVars, ledger, jobs, provJobs, now, profiles, served, lib, bucket>>

\* The provider call throws.  The analyze handler retries unless the status
\* is 401 or 429 and attempts are left; the coach handler's inner catch (which
\* also receives the abort of the 10 s timer) answers data: null.
ProviderThrow(r, e) ==
    /\ req[r].pc = "provider"
    /\ e \in ProviderErrors
    /\ LET f == req[r]
           entry == Entry("provider", FALSE, "throw")
           retry == /\ f.ep = "analyze"
                    /\ e.status \notin {401, 429}
                    /\ f.attempt < maxRetries
       IN  req' = [req EXCEPT ![r] =
                     IF retry
                     THEN [f EXCEPT !.pc = "backoff", !.err = <<e>>,
                                    !.trace = Append(@, entry)]
                     ELSE [Respond(f, entry, CatchAll(f.ep, e))
                             EXCEPT !.err = <<e>>]]
    /\ UNCHANGED <<assistantVars, ledger, jobs, provJobs, now, profiles, served, lib, bucket>>

\* setTimeout(resolve, 1000 * (attempt + 1)) of the analyze retry loop
Backoff(r) ==
    /\ req[r].pc = "backoff"
    /\ req' = [req EXCEPT ![r] = [@ EXCEPT !.pc = "provider",
                                          !.waits = Append(@, req[r].attempt + 1),
                                          !.attempt = @ + 1]]
    /\ UNCHANGED <<assistantVars, ledger, jobs, provJobs, now, profiles, served, lib, bucket>>

\* mutant: the ownership row is never written
PersistJobDropped(r, outcome) ==
    /\ req[r].pc = "persist"
    /\ jobs' = jobs
    /\ req' = [req EXCEPT ![r] = Advance(@, Entry("persist", outcome = "ok", outcome))]
    /\ UNCHANGED <<assistantVars, ledger, provJobs, now, profiles, served, lib, bucket>>

\* supabase.from('transcription_jobs').insert({job_id, user_id, ...})
PersistJob(r, outcome) ==
    /\ req[r].pc = "persist"
    /\ jobs' = IF outcome = "ok"
               THEN jobs \cup {[job_id |-> req[r].jobId[1], user_id |-> Caller,
                                 status |-> "queued"]}
               ELSE jobs
    /\ req' = [req EXCEPT ![r] = Advance(@, Entry("persist", outcome = "ok", outcome))]
    /\ UNCHANGED <<assistantVars, ledger, provJobs, now, profiles, served, lib, bucket>>

\* await recordUsage(supabase, user.id, apiType), then the success response
Record(r, outcome) ==
    /\ req[r].pc = "record"
    /\ LET f == req[r]
           led == RecordUsage(ledger, Caller, f.ep, now, outcome)
       IN  /\ ledger' = led
           /\ req' = [req EXCEPT ![r] =
                        [Respond(f, Entry("record", outcome = "ok", outcome),
                                 AfterRecord(f.ep, outcome))
                           EXCEPT !.stored = BagCardinality(led) - BagCardinality(ledger),
                                  !.recMonth = <<MonthYear(now)>>]]
    /\ UNCHANGED <<assistantVars, jobs, provJobs, now, profiles, served, lib, bucket>>

\* The response has been sent; the frame is free for the next request.
Finish(r) ==
    /\ req[r].pc = "done"
    /\ req' = [req EXCEPT ![r] = IdleFrame(req[r].ep)]
    /\ UNCHANGED <<assistantVars, ledger, jobs, provJobs, now, profiles, served, lib, bucket>>

\* Rows before the run for a client that calls endpoint ep: the caller's n
\* rows of this month and the rows that differ from them in one column.
InitServer(eps, tiers, trials, fills) ==
    /\ \E ep \in eps :
         /\ req = [r \in Reqs |-> IdleFrame(ep)]
         /\ \E n \in fills[ep] : ledger = Prefill(ep, n)
    /\ \E tier \in tiers, trial \in trials :
         profiles = [u \in Users |->
                        IF u = Caller THEN [tier |-> tier, trial_ends_at |-> trial]
                        ELSE NoProfiles[u]]
    /\ now = 0
    /\ jobs = {}
    /\ provJobs = {}
    /\ served = 0
    /\ lib = [op |-> "none"]
    /\ bucket = {}
    /\ NoThreads

\* Pre-existing usage of the caller: none, one below the cap, at the cap
NearCap == [ep \in Endpoints |-> {0, Max(TopCap(ep), 1) - 1, TopCap(ep)}]

Init == InitServer(Endpoints, StoredTiers, TrialEnds, NearCap)

Step(r) ==
    \/ \E ok \in BOOLEAN : Authenticate(r, ok)
    \/ \E outcome \in ProfileOutcomes : TierGate(r, outcome)
    \/ \E outcome \in StoreOutcomes : QuotaCheck(r, outcome)
    \/ \E body \in BodyKinds : Validate(r, body)
    \/ \E payload \in ProviderReturns(req[r].ep) : ProviderReturn(r, payload)
    \/ \E e \in ProviderErrors : ProviderThrow(r, e)
    \/ Backoff(r)
    \/ \E outcome \in StoreOutcomes : PersistJob(r, outcome)
    \/ \E outcome \in StoreOutcomes : Record(r, outcome)

\* One request at a time
Next ==
    \/ Start(1, TRUE)
    \/ Step(1)
    \/ Finish(1)
    \/ Tick

Spec == Init /\ [][Next]_vars

\* Requests of one basic user without a trial, in flight together, against a
\* store that holds one row less than the cap
JustBelowCap == [ep \in QuotaEndpoints |-> {TopCap(ep) - 1}]

InitRace == InitServer(QuotaEndpoints, {"basic"}, {<<>>}, JustBelowCap)

NextRace ==
    \E r \in Reqs :
        \/ Start(r, FALSE)
        \/ Step(r)

SpecRace == InitRace /\ [][NextRace]_vars

----------------------------------------------------------------------------
(* Object storage: lib/s3.ts and app/api/storage/{delete-file,download-url}  *)

MaxKeyLen == 5          \* longest object key, in tokens

\* A key is a string; it is held as a sequence of tokens, "/" or a piece of
\* a name.  Adjacent pieces form one longer name.
KeyTokens == {"/", "u1", "u2", "x"}

RECURSIVE KeysOfLen(_)
KeysOfLen(n) ==
    IF n = 0 THEN {<<>>}
    ELSE {Append(k, t) : k \in KeysOfLen(n - 1), t \in KeyTokens}

\* the keys that pass z.string().min(1)
Keys == UNION {KeysOfLen(n) : n \in 1 .. MaxKeyLen}

\* the string a user id is
IdString(userId) == <<userId>>

\* path.split('/')
RECURSIVE SplitPath(_)
SplitPath(path) ==
    IF path = <<>> THEN << <<>> >>
    ELSE LET rest == SplitPath(Tail(path))
         IN  IF Head(path) = "/" THEN << <<>> >> \o rest
             ELSE << <<Head(path)>> \o rest[1] >> \o Tail(rest)

\* mutant: the owner read from the first path segment
ExtractUserIdFromFirst(path) ==
    LET parts == SplitPath(path)
    IN  IF Len(parts) >= 2 THEN <<parts[1]>> ELSE <<>>

\* extractUserIdFromPath: <<>> is null, <<s>> is the string s
ExtractUserIdFromPath(path) ==
    LET parts == SplitPath(path)
    IN  IF Len(parts) >= 2 THEN <<parts[2]>> ELSE <<>>

StorageEndpoints == {"delete-file", "download-url"}

\* Outcomes of s3Client.send(new DeleteObjectCommand(...)): done, or an error
\* named NoSuchKey, or any other error
DeleteOutcomes == {"ok", "NoSuchKey", "error"}

\* Outcomes of getSignedUrl(...)
SignOutcomes == {"ok", "error"}

\* the objects in the bucket before the run: one of each user
OwnObject == <<"x", "/", "u1", "/", "x">>
OtherObject == <<"x", "/", "u2", "/", "x">>

StorageFrame(ep) ==
    [pc |-> "idle", ep |-> ep, trace |-> <<>>, key |-> <<>>, bucket0 |-> {},
     resp |-> <<>>]

\* the frame after a storage-handler step that succeeded
StorageAdvance(f, entry, pc) == [f EXCEPT !.pc = pc, !.trace = Append(@, entry)]

StorageStart(r) ==
    /\ req[r].pc = "idle"
    /\ served < MaxRequests
    /\ req' = [req EXCEPT ![r] = [StorageFrame(req[r].ep) EXCEPT
                                    !.pc = "auth", !.bucket0 = bucket]]
    /\ served' = served + 1
    /\ UNCHANGED <<assistantVars, ledger, jobs, provJobs, now, profiles, lib, bucket>>

\* getAuthenticatedUser(request)
StorageAuthenticate(r, ok) ==
    /\ req[r].pc = "auth"
    /\ req' = [req EXCEPT ![r] =
                 IF ok THEN StorageAdvance(@, Entry("auth", TRUE, "ok"), "validate")
                 ELSE Respond(@, Entry("auth", FALSE, "unauthorized"),
                              Failure(401, "AUTH_ERROR"))]
    /\ UNCHANGED <<assistantVars, ledger, jobs, provJobs, now, profiles, served, lib, bucket>>

\* request.json() and requestSchema.safeParse(body), for a body that is not
\* JSON, that fails the schema, or that carries the key
StorageValidate(r, body, key) ==
    /\ req[r].pc = "validate"
    /\ req' = [req EXCEPT ![r] =
                 CASE body = "valid" ->
                        [StorageAdvance(@, Entry("validate", TRUE, body), "owner")
                           EXCEPT !.key = key]
                   [] body = "schema_invalid" ->
                        Respond(@, Entry("validate", FALSE, body), ValidationError)
                   [] body = "malformed" ->
                        Respond(@, Entry("validate", FALSE, body),
                                Failure(500, "SERVER_ERROR"))]
    /\ UNCHANGED <<assistantVars, ledger, jobs, provJobs, now, profiles, served, lib, bucket>>

\* mutant: the delete handler without its comparison with user.id
DeleteOwnerCheckMissing(fileOwnerId, userId) ==
    IF fileOwnerId = <<>> \/ fileOwnerId[1] = <<>> THEN "INVALID_PATH"
    ELSE "ok"

\* The ownership test of the delete handler: !fileOwnerId, then
\* fileOwnerId !== user.id
DeleteOwnerCheck(fileOwnerId, userId) ==
    IF fileOwnerId = <<>> \/ fileOwnerId[1] = <<>> THEN "INVALID_PATH"
    ELSE IF fileOwnerId[1] # IdString(userId) THEN "FORBIDDEN"
    ELSE "ok"

\* mutant: the download handler lets a key without an owner segment pass
DownloadOwnerCheckNullPasses(fileOwnerId, userId) ==
    IF fileOwnerId = <<>> THEN "ok"
    ELSE IF fileOwnerId[1] # IdString(userId) THEN "FORBIDDEN"
    ELSE "ok"

\* The ownership test of the download handler: fileOwnerId !== user.id
DownloadOwnerCheck(fileOwnerId, userId) ==
    IF fileOwnerId = <<>> THEN "FORBIDDEN"
    ELSE IF fileOwnerId[1] # IdString(userId) THEN "FORBIDDEN"
    ELSE "ok"

\* extractUserIdFromPath(key) and the handler's test of the result
StorageOwner(r) ==
    /\ req[r].pc = "owner"
    /\ LET f == req[r]
           fileOwnerId == ExtractUserIdFromPath(f.key)
           verdict == IF f.ep = "delete-file"
                      THEN DeleteOwnerCheck(fileOwnerId, Caller)
                      ELSE DownloadOwnerCheck(fileOwnerId, Caller)
       IN  req' = [req EXCEPT ![r] =
                     CASE verdict = "ok" ->
                            StorageAdvance(f, Entry("owner", TRUE, verdict),
                                           IF f.ep = "delete-file" THEN "delete"
                                           ELSE "sign")
                       [] verdict = "INVALID_PATH" ->
                            Respond(f, Entry("owner", FALSE, verdict),
                                    Failure(400, "INVALID_PATH"))
                       [] verdict = "FORBIDDEN" ->
                            Respond(f, Entry("owner", FALSE, verdict),
                                    Failure(403, "FORBIDDEN"))]
    /\ UNCHANGED <<assistantVars, ledger, jobs, provJobs, now, profiles, served, lib, bucket>>

\* mutant: an absent object reported as a failure
AfterDeleteStrict(outcome) ==
    CASE outcome = "ok"        -> Success(200, "deleted")
      [] outcome = "NoSuchKey" -> Failure(500, "SERVER_ERROR")
      [] outcome = "error"     -> Failure(500, "SERVER_ERROR")

\* The response of the delete handler after `await deleteFile(key)`
AfterDelete(outcome) ==
    CASE outcome = "ok"        -> Success(200, "deleted")
      [] outcome = "NoSuchKey" -> Success(200, "already_deleted")
      [] outcome = "error"     -> Failure(500, "SERVER_ERROR")

\* deleteFile(key): the backend removes the object, or reports it absent, or
\* fails and leaves the bucket as it is
DeleteFile(r, outcome) ==
    /\ req[r].pc = "delete"
    /\ outcome = "NoSuchKey" => req[r].key \notin bucket
    /\ bucket' = IF outcome = "ok" THEN bucket \ {req[r].key} ELSE bucket
    /\ req' = [req EXCEPT ![r] =
                 Respond(@, Entry("delete", outcome = "ok", outcome),
                         AfterDelete(outcome))]
    /\ UNCHANGED <<assistantVars, ledger, jobs, provJobs, now, profiles, served, lib>>

\* generateDownloadUrl(key, expires_in)
SignDownload(r, outcome) ==
    /\ req[r].pc = "sign"
    /\ req' = [req EXCEPT ![r] =
                 Respond(@, Entry("sign", outcome = "ok", outcome),
                         IF outcome = "ok" THEN Success(200, "url")
                         ELSE Failure(500, "SERVER_ERROR"))]
    /\ UNCHANGED <<assistantVars, ledger, jobs, provJobs, now, profiles, served, lib, bucket>>

StorageFinish(r) ==
    /\ req[r].pc = "done"
    /\ req' = [req EXCEPT ![r] = StorageFrame(req[r].ep)]
    /\ UNCHANGED <<assistantVars, ledger, jobs, provJobs, now, profiles, served, lib, bucket>>

InitStorage ==
    /\ \E ep \in StorageEndpoints : req = [r \in Reqs |-> StorageFrame(ep)]
    /\ bucket = {OwnObject, OtherObject}
    /\ NoThreads
    /\ ledger = EmptyBag
    /\ profiles = NoProfiles
    /\ now = 0
    /\ jobs = {}
    /\ provJobs = {}
    /\ served = 0
    /\ lib = [op |-> "none"]

StorageStep(r) ==
    \/ \E ok \in BOOLEAN : StorageAuthenticate(r, ok)
    \/ \E key \in Keys : StorageValidate(r, "valid", key)
    \/ \E body \in {"schema_invalid", "malformed"} : StorageValidate(r, body, <<>>)
    \/ StorageOwner(r)
    \/ \E outcome \in DeleteOutcomes : DeleteFile(r, outcome)
    \/ \E outcome \in SignOutcomes : SignDownload(r, outcome)

NextStorage ==
    \/ StorageStart(1)
    \/ StorageStep(1)
    \/ StorageFinish(1)

SpecStorage == InitStorage /\ [][NextStorage]_vars

----------------------------------------------------------------------------
(* Transcription status: app/api/ai/transcribe/[jobId]/route.ts, polled     *)
(* after transcription starts                                               *)

MaxPolls == 1           \* status polls accepted after the last start

\* the job ids a poll can name: those the provider can have created, and one
\* it never creates
JobIds == 1 .. (MaxRequests + 1)

\* transcript.status as getTranscriptionResult returns it, or the call throws
TranscriptResults == {"queued", "processing", "completed", "error", "throw"}

PollFrame ==
    [pc |-> "idle", ep |-> "status", user |-> "", jobId |-> 0, trace |-> <<>>,
     owner |-> <<>>, result |-> "", resp |-> <<>>]

PollAdvance(f, entry, pc) == [f EXCEPT !.pc = pc, !.trace = Append(@, entry)]

\* GET /api/ai/transcribe/{jobId} arrives with a bearer token of some user
PollStart(r, userId, jobId) ==
    /\ req[r].pc = "idle"
    /\ served < MaxRequests + MaxPolls
    /\ \A q \in Reqs : req[q].pc = "idle"
    /\ req' = [req EXCEPT ![r] = [PollFrame EXCEPT !.pc = "auth",
                                                    !.user = userId,
                                                    !.jobId = jobId]]
    /\ served' = served + 1
    /\ UNCHANGED <<assistantVars, ledger, jobs, provJobs, now, profiles, lib, bucket>>

\* getAuthenticatedUser(request)
PollAuthenticate(r, ok) ==
    /\ req[r].pc = "auth"
    /\ req[r].ep = "status"
    /\ req' = [req EXCEPT ![r] =
                 IF ok THEN PollAdvance(@, Entry("auth", TRUE, "ok"), "lookup")
                 ELSE Respond(@, Entry("auth", FALSE, "unauthorized"),
                              Failure(401, "AUTH_ERROR"))]
    /\ UNCHANGED <<assistantVars, ledger, jobs, provJobs, now, profiles, served, lib, bucket>>

\* .from('transcription_jobs').select('user_id').eq('job_id', jobId).single():
\* <<row>> when exactly one row matches and the query succeeds, else <<>>
JobRecord(table, jobId, outcome) ==
    LET rows == {j \in table : j.job_id = jobId}
    IN  IF outcome = "ok" /\ Cardinality(rows) = 1
        THEN <<CHOOSE j \in rows : TRUE>>
        ELSE <<>>

\* mutant: the status handler without its comparison with user.id
PollVerdictAnyOwner(record, userId) ==
    IF record = <<>> THEN "NOT_FOUND"
    ELSE "ok"

\* The ownership test of the status handler
PollVerdict(record, userId) ==
    IF record = <<>> THEN "NOT_FOUND"
    ELSE IF record[1].user_id # userId THEN "FORBIDDEN"
    ELSE "ok"

\* the ownership lookup and the test of its result
PollLookup(r, outcome) ==
    /\ req[r].pc = "lookup"
    /\ LET f == req[r]
           record == JobRecord(jobs, f.jobId, outcome)
           verdict == PollVerdict(record, f.user)
           g == [f EXCEPT !.owner = IF record = <<>> THEN <<>>
                                    ELSE <<record[1].user_id>>]
       IN  req' = [req EXCEPT ![r] =
                     CASE verdict = "ok" ->
                            PollAdvance(g, Entry("lookup", TRUE, outcome), "fetch")
                       [] verdict = "NOT_FOUND" ->
                            Respond(g, Entry("lookup", FALSE, outcome),
                                    Failure(404, "NOT_FOUND"))
                       [] verdict = "FORBIDDEN" ->
                            Respond(g, Entry("lookup", FALSE, outcome),
                                    Failure(403, "FORBIDDEN"))]
    /\ UNCHANGED <<assistantVars, ledger, jobs, provJobs, now, profiles, served, lib, bucket>>

\* getTranscriptionResult(jobId) and the branch on result.status
PollFetch(r, result) ==
    /\ req[r].pc = "fetch"
    /\ LET f == req[r]
           entry == Entry("fetch", result # "throw", result)
       IN  req' = [req EXCEPT ![r] =
                     CASE result \in {"queued", "processing"} ->
                            Respond(f, entry, Success(200, "pending"))
                       [] result = "throw" ->
                            Respond(f, entry, Failure(500, "SERVER_ERROR"))
                       [] result \in {"completed", "error"} ->
                            [PollAdvance(f, entry, "update") EXCEPT
                               !.result = result]]
    /\ UNCHANGED <<assistantVars, ledger, jobs, provJobs, now, profiles, served, lib, bucket>>

\* .from('transcription_jobs').update({status}).eq('job_id', jobId), whose
\* result the handler does not read, then the response
PollUpdate(r, outcome) ==
    /\ req[r].pc = "update"
    /\ LET f == req[r]
           result == f.result
       IN  /\ jobs' = IF outcome = "ok"
                      THEN {IF j.job_id = f.jobId THEN [j EXCEPT !.status = result]
                            ELSE j : j \in jobs}
                      ELSE jobs
           /\ req' = [req EXCEPT ![r] =
                        Respond(f, Entry("update", outcome = "ok", outcome),
                                IF result = "error"
                                THEN Failure(500, "TRANSCRIPTION_ERROR")
                                ELSE Success(200, "transcript"))]
    /\ UNCHANGED <<assistantVars, ledger, provJobs, now, profiles, served, lib, bucket>>

PollFinish(r) ==
    /\ req[r].pc = "done"
    /\ req[r].ep = "status"
    /\ req' = [req EXCEPT ![r] = PollFrame]
    /\ UNCHANGED <<assistantVars, ledger, jobs, provJobs, now, profiles, served, lib, bucket>>

\* Frame 1 starts transcriptions for the caller (a pro user, no quota); the
\* other frames poll, for either user.
InitJobs ==
    /\ req = [r \in Reqs |-> IF r = 1 THEN IdleFrame("transcribe") ELSE PollFrame]
    /\ profiles = NoProfiles
    /\ ledger = EmptyBag
    /\ now = 0
    /\ jobs = {}
    /\ provJobs = {}
    /\ served = 0
    /\ lib = [op |-> "none"]
    /\ bucket = {}
    /\ NoThreads

PollStep(r) ==
    \/ \E ok \in BOOLEAN : PollAuthenticate(r, ok)
    \/ \E outcome \in StoreOutcomes : PollLookup(r, outcome)
    \/ \E result \in TranscriptResults : PollFetch(r, result)
    \/ \E outcome \in StoreOutcomes : PollUpdate(r, outcome)

\* the steps of the transcription start handler
TranscribeStep(r) ==
    \/ \E ok \in BOOLEAN : Authenticate(r, ok)
    \/ \E outcome \in ProfileOutcomes : TierGate(r, outcome)
    \/ \E outcome \in StoreOutcomes : QuotaCheck(r, outcome)
    \/ \E body \in BodyKinds : Validate(r, body)
    \/ ProviderReturn(r, "ok")
    \/ \E e \in ProviderErrors : ProviderThrow(r, e)
    \/ \E outcome \in StoreOutcomes : PersistJob(r, outcome)
    \/ \E outcome \in StoreOutcomes : Record(r, outcome)

NextJobs ==
    \/ Start(1, TRUE)
    \/ TranscribeStep(1)
    \/ Finish(1)
    \/ \E userId \in Users, jobId \in JobIds : PollStart(2, userId, jobId)
    \/ PollStep(2)
    \/ PollFinish(2)

SpecJobs == InitJobs /\ [][NextJobs]_vars

----------------------------------------------------------------------------
(* Presigning in the OCR and transcription-start handlers: a body whose URL *)
(* points into the bucket has its object presigned for the provider before  *)
(* the provider is called.  The download-url handler runs beside them.      *)

\* A request arrives whose image_url or audio_url is the bucket URL of key
StartWithObject(r, key) ==
    /\ req[r].pc = "idle"
    /\ served < MaxRequests
    /\ req' = [req EXCEPT ![r] = [IdleFrame(req[r].ep) EXCEPT
                                    !.pc = "auth",
                                    !.url = BucketUrl(key),
                                    !.size0 = BagCardinality(ledger)]]
    /\ served' = served + 1
    /\ UNCHANGED <<assistantVars, ledger, jobs, provJobs, now, profiles, lib,
                   bucket>>

\* mutant: the object is presigned only when the caller owns the key
PresignOwnedOnly(r, outcome) ==
    /\ req[r].pc = "presign"
    /\ LET f == req[r]
           key == UrlKey(f.url)
           owned == ExtractUserIdFromPath(key) = <<IdString(Caller)>>
       IN  req' = [req EXCEPT ![r] =
                     IF ~owned
                     THEN Respond(f, Entry("presign", FALSE, "FORBIDDEN"),
                                  Failure(403, "FORBIDDEN"))
                     ELSE [f EXCEPT !.pc = "provider",
                                    !.trace = Append(@, Entry("presign",
                                                              outcome = "ok",
                                                              outcome)),
                                    !.signed = IF outcome = "ok" THEN {key}
                                               ELSE {}]]
    /\ UNCHANGED <<assistantVars, ledger, jobs, provJobs, now, profiles, served,
                   lib, bucket>>

\* generateDownloadUrl(key, ...) inside its own try: a failure is logged and
\* the handler goes on with the URL as submitted
Presign(r, outcome) ==
    /\ req[r].pc = "presign"
    /\ LET f == req[r]
           key == UrlKey(f.url)
       IN  req' = [req EXCEPT ![r] =
                     [f EXCEPT !.pc = "provider",
                               !.trace = Append(@, Entry("presign",
                                                         outcome = "ok",
                                                         outcome)),
                               !.signed = IF outcome = "ok" THEN {key} ELSE {}]]
    /\ UNCHANGED <<assistantVars, ledger, jobs, provJobs, now, profiles, served,
                   lib, bucket>>

InitPresign ==
    /\ \E ep \in PresignEndpoints :
         req = [r \in Reqs |-> IF r = 1 THEN IdleFrame(ep)
                               ELSE StorageFrame("download-url")]
    /\ profiles = NoProfiles
    /\ ledger = EmptyBag
    /\ bucket = {OwnObject, OtherObject}
    /\ NoThreads
    /\ lib = [op |-> "none"]
    /\ now = 0
    /\ jobs = {}
    /\ provJobs = {}
    /\ served = 0

\* the steps of the OCR or transcription-start handler in frame r
PresignStep(r) ==
    \/ Start(r, FALSE)
    \/ \E key \in {OwnObject, OtherObject} : StartWithObject(r, key)
    \/ \E ok \in BOOLEAN : Authenticate(r, ok)
    \/ \E outcome \in ProfileOutcomes : TierGate(r, outcome)
    \/ \E outcome \in StoreOutcomes : QuotaCheck(r, outcome)
    \/ \E body \in BodyKinds : Validate(r, body)
    \/ \E outcome \in SignOutcomes : Presign(r, outcome)
    \/ \E payload \in ProviderReturns(req[r].ep) : ProviderReturn(r, payload)
    \/ \E e \in ProviderErrors : ProviderThrow(r, e)
    \/ \E outcome \in StoreOutcomes : PersistJob(r, outcome)
    \/ \E outcome \in StoreOutcomes : Record(r, outcome)
    \/ Finish(r)

\* the steps of the download-url handler in frame r
DownloadStep(r) ==
    \/ StorageStart(r)
    \/ \E ok \in BOOLEAN : StorageAuthenticate(r, ok)
    \/ \E body \in BodyKinds, key \in {OwnObject, OtherObject} :
          StorageValidate(r, body, key)
    \/ StorageOwner(r)
    \/ \E outcome \in SignOutcomes : SignDownload(r, outcome)
    \/ StorageFinish(r)

NextPresign ==
    \/ PresignStep(1)
    \/ \E r \in Reqs \ {1} : DownloadStep(r)

SpecPresign == InitPresign /\ [][NextPresign]_vars

----------------------------------------------------------------------------
(* The Deepgram token endpoint: app/api/ai/deepgram/token/route.ts.  Its    *)
(* tier check, its rate limit and its usage insert are commented out in the *)
(* source; what runs is the authentication, the profile select and the      *)
(* return of the key.                                                       *)

\* A JSON string value and a JSON object with the given fields
JsonString == [kind |-> "string", fields |-> {}]
JsonObject(fields) == [kind |-> "object", fields |-> fields]

\* { success: false, error: 'Unauthorized' }, status 401
TokenUnauthorized ==
    [status |-> 401, body |-> [success |-> FALSE, error |-> JsonString]]

\* { success: true, token: temporaryToken, expiresIn: 10 }
TokenGranted ==
    [status |-> 200,
     body |-> [success |-> TRUE, token |-> JsonString, expiresIn |-> 10]]

\* { success: false, error: 'Internal server error' }, status 500
TokenServerError ==
    [status |-> 500, body |-> [success |-> FALSE, error |-> JsonString]]

\* What the profile select can do: return the row, return no row (its error
\* is not read), or not be reached because createServerClient() threw
TokenProfileOutcomes == {"ok", "error", "throw"}

\* effectiveTier: profile?.subscription_tier || 'free', 'pro' in a running
\* trial
TokenEffectiveTier(profile, t) ==
    IF profile = <<>> THEN "free"
    ELSE IF profile[1].trial_ends_at # <<>> /\ profile[1].trial_ends_at[1] > t
         THEN "pro"
    ELSE IF profile[1].tier = "" THEN "free"
    ELSE profile[1].tier

TokenFrame ==
    [pc |-> "idle", ep |-> "token", trace |-> <<>>, tier |-> "", resp |-> <<>>]

TokenStart(r) ==
    /\ req[r].pc = "idle"
    /\ served < MaxRequests
    /\ req' = [req EXCEPT ![r] = [TokenFrame EXCEPT !.pc = "auth"]]
    /\ served' = served + 1
    /\ UNCHANGED <<assistantVars, ledger, jobs, provJobs, now, profiles, lib, bucket>>

\* getAuthenticatedUser(request)
TokenAuthenticate(r, ok) ==
    /\ req[r].pc = "auth"
    /\ req' = [req EXCEPT ![r] =
                 IF ok THEN [@ EXCEPT !.pc = "profile",
                                      !.trace = Append(@, Entry("auth", TRUE, "ok"))]
                 ELSE Respond(@, Entry("auth", FALSE, "unauthorized"),
                              TokenUnauthorized)]
    /\ UNCHANGED <<assistantVars, ledger, jobs, provJobs, now, profiles, served, lib, bucket>>

\* createServerClient(), the profile select, effectiveTier and the response:
\* no await lies between the select and the return
TokenProfile(r, outcome) ==
    /\ req[r].pc = "profile"
    /\ LET profile == IF outcome = "ok" THEN <<profiles[Caller]>> ELSE <<>>
       IN req' = [req EXCEPT ![r] =
                    IF outcome = "throw"
                    THEN Respond(@, Entry("profile", FALSE, outcome),
                                 TokenServerError)
                    ELSE [Respond(@, Entry("profile", TRUE, outcome),
                                  TokenGranted)
                            EXCEPT !.tier = TokenEffectiveTier(profile, now)]]
    /\ UNCHANGED <<assistantVars, ledger, jobs, provJobs, now, profiles, served, lib, bucket>>

\* the response has left; the frame takes the next request
TokenFinish(r) ==
    /\ req[r].pc = "done"
    /\ req' = [req EXCEPT ![r] = TokenFrame]
    /\ UNCHANGED <<assistantVars, ledger, jobs, provJobs, now, profiles, served, lib, bucket>>

InitToken ==
    /\ \E tier \in StoredTiers, trial \in TrialEnds :
         profiles = [u \in Users |->
                        IF u = Caller THEN [tier |-> tier, trial_ends_at |-> trial]
                        ELSE NoProfiles[u]]
    /\ req = [r \in Reqs |-> TokenFrame]
    /\ lib = [op |-> "none"]
    /\ ledger = EmptyBag
    /\ now = 0
    /\ jobs = {}
    /\ provJobs = {}
    /\ served = 0
    /\ bucket = {}
    /\ NoThreads

TokenStep(r) ==
    \/ TokenStart(r)
    \/ \E ok \in BOOLEAN : TokenAuthenticate(r, ok)
    \/ \E outcome \in TokenProfileOutcomes : TokenProfile(r, outcome)
    \/ TokenFinish(r)

NextToken ==
    \/ \E r \in Reqs : TokenStep(r)
    \/ Tick

SpecToken == InitToken /\ [][NextToken]_vars

----------------------------------------------------------------------------
(* The assistant query endpoint: app/api/ai/assistant/query/route.ts.  A    *)
(* thread is created for the query, a run is started and polled, and the    *)
(* thread is deleted in the finally block.  An action is the code between   *)
(* two awaits.                                                              *)

\* the status checks the polling loop makes at most: attempts < 10
maxAttempts == 10

\* run.status as the provider reports it
RunStatuses ==
    {"queued", "in_progress", "completed", "failed", "expired", "cancelled"}

\* the statuses on which the loop throws
RunEnded == {"failed", "expired", "cancelled"}

\* Outcomes of one call of the provider: it returns or it throws
CallOutcomes == {"ok", "throw"}

\* the response of the inner and of the outer catch block
QueryFailed == Failure(500, "SERVER_ERROR")

QueryFrame ==
    [pc |-> "idle", ep |-> "query", trace |-> <<>>, threadId |-> <<>>,
     attempts |-> 0, runStatus |-> "", pending |-> <<>>, resp |-> <<>>]

\* the frame after a step that succeeded
QueryAdvance(f, entry, pc) == [f EXCEPT !.pc = pc, !.trace = Append(@, entry)]

\* A return or a throw inside the inner try: the response is decided, then
\* the finally block runs; with no thread it has nothing to do and the
\* handler returns.
QueryReturn(f, entry, resp) ==
    IF f.threadId = <<>> THEN Respond(f, entry, resp)
    ELSE [f EXCEPT !.pc = "cleanup", !.trace = Append(@, entry),
                   !.pending = <<resp>>]

\* The head of the polling loop and the test after it, for the status just
\* read: the pc the handler waits at next, or "throw"
LoopNext(attempts, runStatus) ==
    IF attempts < maxAttempts /\ runStatus # "completed"
    THEN IF runStatus \in RunEnded THEN "throw" ELSE "wait"
    ELSE IF runStatus # "completed" THEN "throw" ELSE "messages"

QueryStart(r) ==
    /\ req[r].pc = "idle"
    /\ served < MaxRequests
    /\ req' = [req EXCEPT ![r] = [QueryFrame EXCEPT !.pc = "auth"]]
    /\ served' = served + 1
    /\ UNCHANGED <<assistantVars, ledger, jobs, provJobs, now, profiles, lib,
                   bucket>>

\* getAuthenticatedUser(request)
QueryAuthenticate(r, ok) ==
    /\ req[r].pc = "auth"
    /\ req' = [req EXCEPT ![r] =
                 IF ok THEN QueryAdvance(@, Entry("auth", TRUE, "ok"), "validate")
                 ELSE Respond(@, Entry("auth", FALSE, "unauthorized"),
                              Failure(401, "AUTH_ERROR"))]
    /\ UNCHANGED <<assistantVars, ledger, jobs, provJobs, now, profiles, served,
                   lib, bucket>>

\* request.json() and querySchema.safeParse(body); a body that is not JSON
\* throws into the outer catch
QueryValidate(r, body) ==
    /\ req[r].pc = "validate"
    /\ req' = [req EXCEPT ![r] =
                 CASE body = "valid" ->
                        QueryAdvance(@, Entry("validate", TRUE, body), "thread")
                   [] body = "schema_invalid" ->
                        Respond(@, Entry("validate", FALSE, body), ValidationError)
                   [] body = "malformed" ->
                        Respond(@, Entry("validate", FALSE, body), QueryFailed)]
    /\ UNCHANGED <<assistantVars, ledger, jobs, provJobs, now, profiles, served,
                   lib, bucket>>

\* openai.beta.threads.create(): the thread of request number n is thread n
ThreadCreate(r, outcome) ==
    /\ req[r].pc = "thread"
    /\ LET f == req[r]
           id == CHOOSE n \in 1 .. (MaxRequests + 1) :
                    /\ n \notin threads
                    /\ \A q \in DOMAIN req : req[q].threadId # <<n>>
       IN  IF outcome = "ok"
           THEN /\ threads' = threads \cup {id}
                /\ req' = [req EXCEPT ![r] =
                             [QueryAdvance(f, Entry("thread", TRUE, outcome),
                                           "message")
                                EXCEPT !.threadId = <<id>>]]
           ELSE /\ threads' = threads
                /\ req' = [req EXCEPT ![r] =
                             QueryReturn(f, Entry("thread", FALSE, outcome),
                                         QueryFailed)]
    /\ UNCHANGED <<threadCleanupSuccessCount, threadCleanupFailureCount, ledger,
                   jobs, provJobs, now, profiles, served, lib, bucket>>

\* openai.beta.threads.messages.create(threadId, ...)
MessageCreate(r, outcome) ==
    /\ req[r].pc = "message"
    /\ req' = [req EXCEPT ![r] =
                 IF outcome = "ok"
                 THEN QueryAdvance(@, Entry("message", TRUE, outcome), "run")
                 ELSE QueryReturn(@, Entry("message", FALSE, outcome),
                                  QueryFailed)]
    /\ UNCHANGED <<assistantVars, ledger, jobs, provJobs, now, profiles, served,
                   lib, bucket>>

\* What the frame does with the status just read
AfterStatus(f, entry, runStatus, attempts) ==
    LET g == [f EXCEPT !.runStatus = runStatus, !.attempts = attempts]
        next == LoopNext(attempts, runStatus)
    IN  IF next = "throw" THEN QueryReturn(g, entry, QueryFailed)
        ELSE QueryAdvance(g, entry, next)

\* openai.beta.threads.runs.create(threadId, ...) and the first test of the
\* loop
RunCreate(r, outcome, runStatus) ==
    /\ req[r].pc = "run"
    /\ req' = [req EXCEPT ![r] =
                 IF outcome = "ok"
                 THEN AfterStatus(@, Entry("run", TRUE, outcome), runStatus, 0)
                 ELSE QueryReturn(@, Entry("run", FALSE, outcome), QueryFailed)]
    /\ UNCHANGED <<assistantVars, ledger, jobs, provJobs, now, profiles, served,
                   lib, bucket>>

\* setTimeout(resolve, 1000)
QueryWait(r) ==
    /\ req[r].pc = "wait"
    /\ req' = [req EXCEPT ![r] = [@ EXCEPT !.pc = "retrieve"]]
    /\ UNCHANGED <<assistantVars, ledger, jobs, provJobs, now, profiles, served,
                   lib, bucket>>

\* openai.beta.threads.runs.retrieve(threadId, run.id), attempts++ and the
\* next test of the loop
RunRetrieve(r, outcome, runStatus) ==
    /\ req[r].pc = "retrieve"
    /\ req' = [req EXCEPT ![r] =
                 IF outcome = "ok"
                 THEN AfterStatus(@, Entry("retrieve", TRUE, outcome), runStatus,
                                  @.attempts + 1)
                 ELSE QueryReturn(@, Entry("retrieve", FALSE, outcome),
                                  QueryFailed)]
    /\ UNCHANGED <<assistantVars, ledger, jobs, provJobs, now, profiles, served,
                   lib, bucket>>

\* openai.beta.threads.messages.list(threadId) and the return of the answer
MessagesList(r, outcome) ==
    /\ req[r].pc = "messages"
    /\ req' = [req EXCEPT ![r] =
                 IF outcome = "ok"
                 THEN QueryReturn(@, Entry("messages", TRUE, outcome),
                                  Success(200, "response"))
                 ELSE QueryReturn(@, Entry("messages", FALSE, outcome),
                                  QueryFailed)]
    /\ UNCHANGED <<assistantVars, ledger, jobs, provJobs, now, profiles, served,
                   lib, bucket>>

\* mutant: a failed deletion replaces the response
AfterThreadDeleteStrict(pending, outcome) ==
    IF outcome = "ok" THEN pending ELSE QueryFailed

\* the response after the finally block: the one decided before it
AfterThreadDelete(pending, outcome) == pending

\* The finally block: openai.beta.threads.del(threadId) and one counter
ThreadDelete(r, outcome) ==
    /\ req[r].pc = "cleanup"
    /\ LET f == req[r]
       IN  /\ req' = [req EXCEPT ![r] =
                        Respond(f, Entry("delete", outcome = "ok", outcome),
                                AfterThreadDelete(f.pending[1], outcome))]
           /\ threads' = IF outcome = "ok" THEN threads \ {f.threadId[1]}
                         ELSE threads
    /\ threadCleanupSuccessCount' =
          IF outcome = "ok" THEN threadCleanupSuccessCount + 1
          ELSE threadCleanupSuccessCount
    /\ threadCleanupFailureCount' =
          IF outcome = "ok" THEN threadCleanupFailureCount
          ELSE threadCleanupFailureCount + 1
    /\ UNCHANGED <<ledger, jobs, provJobs, now, profiles, served, lib, bucket>>

\* the response has left; the frame takes the next request
QueryFinish(r) ==
    /\ req[r].pc = "done"
    /\ req' = [req EXCEPT ![r] = QueryFrame]
    /\ UNCHANGED <<assistantVars, ledger, jobs, provJobs, now, profiles, served,
                   lib, bucket>>

InitAssistant ==
    /\ req = [r \in Reqs |-> QueryFrame]
    /\ NoThreads
    /\ profiles = NoProfiles
    /\ lib = [op |-> "none"]
    /\ ledger = EmptyBag
    /\ now = 0
    /\ jobs = {}
    /\ provJobs = {}
    /\ served = 0
    /\ bucket = {}

QueryStep(r) ==
    \/ QueryStart(r)
    \/ \E ok \in BOOLEAN : QueryAuthenticate(r, ok)
    \/ \E body \in BodyKinds : QueryValidate(r, body)
    \/ \E outcome \in CallOutcomes : ThreadCreate(r, outcome)
    \/ \E outcome \in CallOutcomes : MessageCreate(r, outcome)
    \/ \E outcome \in CallOutcomes, s \in RunStatuses : RunCreate(r, outcome, s)
    \/ QueryWait(r)
    \/ \E outcome \in CallOutcomes, s \in RunStatuses : RunRetrieve(r, outcome, s)
    \/ \E outcome \in CallOutcomes : MessagesList(r, outcome)
    \/ \E outcome \in CallOutcomes : ThreadDelete(r, outcome)
    \/ QueryFinish(r)

NextAssistant == \E r \in Reqs : QueryStep(r)

SpecAssistant == InitAssistant /\ [][NextAssistant]_vars

----------------------------------------------------------------------------
(* Properties of the ledger functions *)

LibChecked == lib.op = "check" /\ lib.api \in DOMAIN RATE_LIMITS

LibCap == TierLimit(lib.api, lib.tier)

\* C1: for a feature whose cap for the tier is a nonzero C, checkRateLimit
\* over a store holding exactly C rows of (user, feature, current month)
\* returns allowed=false, remaining=0, limit=C, and over exactly C-1 rows it
\* returns allowed=true, remaining=1, limit=C.
C1_CapBoundary ==
    (LibChecked /\ LibCap # 0 /\ lib.outcome = "ok") =>
        LET rows == RowsOf(ledger, lib.user, lib.api, lib.month)
        IN  /\ rows = LibCap =>
                lib.result[1] = [allowed |-> FALSE, remaining |-> 0, limit |-> LibCap]
            /\ rows = LibCap - 1 =>
                lib.result[1] = [allowed |-> TRUE, remaining |-> 1, limit |-> LibCap]

\* a check over exactly C rows, made right after the record that wrote row C
C1_Witness ==
    /\ LibChecked /\ LibCap # 0 /\ lib.outcome = "ok"
    /\ RowsOf(ledger, lib.user, lib.api, lib.month) = LibCap
    /\ lib.result[1].allowed = FALSE
    /\ lib.prev[1].op = "record"
    /\ lib.prev[1].outcome = "ok"
    /\ lib.prev[1].before = LibCap - 1

C8_RecordThenCheck ==
    (/\ LibChecked /\ LibCap # 0 /\ lib.outcome = "ok"
     /\ lib.prev[1].op = "record"
     /\ lib.prev[1].outcome = "ok"
     /\ lib.prev[1].month = lib.month) =>
        LET used == lib.prev[1].before + 1
        IN  /\ lib.before = used
            /\ lib.result[1].allowed = (used < LibCap)
            /\ lib.result[1].remaining = Max(0, LibCap - used)

\* record then check in one month, with room left under the cap
C8_Witness ==
    /\ LibChecked /\ LibCap # 0 /\ lib.outcome = "ok"
    /\ lib.prev[1].op = "record"
    /\ lib.prev[1].outcome = "ok"
    /\ lib.prev[1].month = lib.month
    /\ lib.prev[1].before + 1 < LibCap
    /\ lib.result[1].remaining = LibCap - (lib.prev[1].before + 1)

----------------------------------------------------------------------------
(* Properties of the tier gate *)

LibTierChecked == lib.op = "tier" /\ lib.outcome = "ok"

\* the tier lists that leave out the lowest tier
TopTierGates == {g \in RequiredTierSets : "basic" \notin g}

\* C5: with a trial expiry strictly after the clock, checkUserTier allows
\* every gate that leaves out the basic tier, whatever the stored tier is;
\* with a trial expiry absent, equal to the clock or before it, it allows
\* exactly when the stored tier is in the gate, so a basic user is denied.
C5_TrialGate ==
    LibTierChecked =>
        LET profile == profiles[lib.user]
            future == /\ profile.trial_ends_at # <<>>
                      /\ profile.trial_ends_at[1] > lib.at
        IN  /\ (future /\ lib.required \in TopTierGates) => lib.result[1].allowed
            /\ ~future => (lib.result[1].allowed <=> profile.tier \in lib.required)
            /\ (~future /\ profile.tier = "basic" /\ lib.required \in TopTierGates)
                   => ~lib.result[1].allowed

\* a basic user in a running trial passes the pro/business gate
C5_Witness ==
    /\ LibTierChecked
    /\ profiles[lib.user].tier = "basic"
    /\ profiles[lib.user].trial_ends_at = <<2>>
    /\ lib.at = 1
    /\ lib.required = {"pro", "business"}
    /\ lib.result[1].allowed

----------------------------------------------------------------------------
(* Properties of the endpoints *)

Steps(f) == 1 .. Len(f.trace)

Calls(f, step) == Cardinality({i \in Steps(f) : f.trace[i].step = step})

\* the outcome of the frame's call of a step ("" when it made none)
OutcomeOf(f, step) ==
    IF \E i \in Steps(f) : f.trace[i].step = step
    THEN f.trace[CHOOSE i \in Steps(f) : f.trace[i].step = step].outcome
    ELSE ""

Rank(step) ==
    CASE step = "auth" -> 1 [] step = "tier" -> 2 [] step = "quota" -> 3
      [] step = "validate" -> 4 [] step = "provider" -> 5
      [] step = "persist" -> 6 [] step = "record" -> 7

PipelineSteps == {"auth", "tier", "quota", "validate", "provider", "record"}

Answered(f) == f.pc = "done"

GaveResult(f) == Answered(f) /\ f.resp[1].success /\ f.resp[1].data = "result"

\* C3: in the OCR, analyze, email and transcription-start handlers the steps
\* run in the order authenticate, tier check, quota check, body validation,
\* provider call, usage record (only a failed analyze provider call is
\* repeated); a step runs only after every earlier step has succeeded, so
\* recordUsage follows a successful provider call; a request answered
\* AUTH_ERROR or TIER_ERROR made no quota check, provider call or usage write.
C3_StepOrder ==
    \A r \in Reqs :
        LET f == req[r]
        IN  f.ep \in QuotaEndpoints =>
            /\ \A i, j \in Steps(f) :
                  i < j =>
                     \/ Rank(f.trace[i].step) < Rank(f.trace[j].step)
                     \/ /\ f.ep = "analyze"
                        /\ f.trace[i].step = "provider" /\ f.trace[j].step = "provider"
                        /\ ~f.trace[i].ok
            /\ \A j \in Steps(f) : \A s \in PipelineSteps :
                  Rank(s) < Rank(f.trace[j].step) =>
                     \E i \in 1 .. (j - 1) : f.trace[i].step = s /\ f.trace[i].ok
            /\ (Answered(f) /\ f.resp[1].code \in {"AUTH_ERROR", "TIER_ERROR"}) =>
                  /\ Calls(f, "quota") = 0
                  /\ Calls(f, "provider") = 0
                  /\ Calls(f, "record") = 0
                  /\ BagCardinality(ledger) = f.size0

\* an analyze request that went through every step, with one provider retry
C3_Witness ==
    \E r \in Reqs :
        /\ req[r].ep = "analyze"
        /\ GaveResult(req[r])
        /\ [i \in Steps(req[r]) |-> req[r].trace[i].step] =
              <<"auth", "tier", "quota", "validate", "provider", "provider", "record">>

\* C4: a request whose body fails the request schema is answered 400
\* VALIDATION_ERROR, calls no provider, issues no usage insert and no job
\* insert, and leaves the ledger as it was when the request arrived.
C4_ValidationRejects ==
    \A r \in Reqs :
        LET f == req[r]
        IN  OutcomeOf(f, "validate") = "schema_invalid" =>
            /\ Answered(f)
            /\ f.resp[1].status = 400
            /\ f.resp[1].code = "VALIDATION_ERROR"
            /\ ~f.resp[1].success
            /\ Calls(f, "provider") = 0
            /\ Calls(f, "persist") = 0
            /\ Calls(f, "record") = 0
            /\ f.stored = 0
            /\ BagCardinality(ledger) = f.size0

\* a rejected transcription-start body of a caller with quota left
C4_Witness ==
    \E r \in Reqs :
        /\ req[r].ep = "transcribe"
        /\ OutcomeOf(req[r], "validate") = "schema_invalid"
        /\ OutcomeOf(req[r], "quota") = "ok"
        /\ req[r].resp[1].code = "VALIDATION_ERROR"
        /\ provJobs = {}

BasicCap(f) == TierLimit(f.ep, "basic")

\* the frame made its quota check as a stored-basic user
CheckedAsBasic(f) == f.ep \in QuotaEndpoints /\ f.tier = "basic" /\ f.seen # <<>>

\* C6: requests of one basic user, one after another, to an endpoint with
\* monthly cap C.  A request checked at C-1 rows is admitted and, when it
\* succeeds and its row is written in that month, leaves C rows; a request
\* checked at C or more rows is answered 429 RATE_LIMIT_EXCEEDED with
\* remaining 0 and limit C and adds nothing; a request checked in a month
\* with fewer than C rows is admitted whatever earlier months hold.
C6_MonthlyCap ==
    \A r \in Reqs :
        LET f == req[r]
            C == BasicCap(f)
        IN  CheckedAsBasic(f) =>
            /\ (f.seen[1].rows < C /\ OutcomeOf(f, "quota") = "ok") =>
                  /\ f.check[1].allowed
                  /\ Calls(f, "quota") = 1 /\ f.trace[3].ok
            /\ (/\ f.seen[1].rows = C - 1
                /\ GaveResult(f)
                /\ f.stored = 1
                /\ f.recMonth = <<f.seen[1].month>>) =>
                  RowsOf(ledger, Caller, f.ep, f.seen[1].month) = C
            /\ f.seen[1].rows >= C =>
                  /\ Answered(f)
                  /\ f.resp[1].status = 429
                  /\ f.resp[1].code = "RATE_LIMIT_EXCEEDED"
                  /\ f.resp[1].extra = <<0, C>>
                  /\ Calls(f, "provider") = 0
                  /\ Calls(f, "record") = 0
                  /\ BagCardinality(ledger) = f.size0

\* the month after a month that was used up: the request is served
C6_Witness ==
    \E r \in Reqs :
        /\ CheckedAsBasic(req[r])
        /\ RowsOf(ledger, Caller, req[r].ep, MonthYear(0)) = BasicCap(req[r])
        /\ req[r].seen[1].month = MonthYear(TicksPerMonth)
        /\ req[r].seen[1].rows = 0
        /\ GaveResult(req[r])
        /\ req[r].stored = 1

StoredBy == {r \in Reqs : req[r].stored = 1}

\* C7: requests of one basic user in flight together, the store holding C-1
\* rows.  Each one is admitted exactly when the count it read was below C,
\* nothing re-checks the count when the row is written, and every admitted
\* request that succeeds adds its row: the month holds C-1 rows plus one per
\* such request, which exceeds C when two were checked before either wrote.
C7_CheckThenRecord ==
    /\ \A r \in Reqs :
          LET f == req[r]
          IN  (f.seen # <<>> /\ OutcomeOf(f, "quota") = "ok") =>
                 (f.check[1].allowed <=> f.seen[1].rows < BasicCap(f))
    /\ \A r \in StoredBy : req[r].seen[1].rows < BasicCap(req[r])
    /\ \A r \in Reqs :
          RowsOf(ledger, Caller, req[r].ep, MonthYear(0)) =
              (BasicCap(req[r]) - 1) + Cardinality(StoredBy)

\* two requests both checked at C-1 rows, both recorded: C+1 rows
C7_Witness ==
    \E r, q \in Reqs :
        /\ r # q
        /\ req[r].seen # <<>> /\ req[q].seen # <<>>
        /\ req[r].seen[1].rows = BasicCap(req[r]) - 1
        /\ req[q].seen[1].rows = BasicCap(req[q]) - 1
        /\ req[r].stored = 1 /\ req[q].stored = 1
        /\ RowsOf(ledger, Caller, req[r].ep, MonthYear(0)) = BasicCap(req[r]) + 1

\* the state part of C9
C9_State ==
    \A r \in Reqs :
        LET f == req[r]
        IN  /\ Calls(f, "record") <= 1
            /\ f.stored <= Calls(f, "record")
            /\ Calls(f, "record") = 1 => OutcomeOf(f, "provider") # ""
            /\ Answered(f) =>
                  /\ Calls(f, "record") = 1 <=> GaveResult(f)
                  /\ GaveResult(f) <=>
                        \E i \in Steps(f) : /\ f.trace[i].step = "provider"
                                            /\ f.trace[i].outcome = "ok"
                  /\ ~GaveResult(f) => BagCardinality(ledger) = f.size0

\* C9: a request issues at most one usage insert, and issues one exactly
\* when it answers with a success response that carries a provider result
\* (for coach: a tip); a request answered with an error or with data: null
\* issues none and leaves the ledger as it was.  Rows of the ledger are only
\* ever added.
C9_OneInsertPerResult == [](C9_State) /\ [][ledger \sqsubseteq ledger']_vars

\* a coach request that got a payload without a tip and recorded nothing,
\* after an earlier request had added a row
C9_Witness ==
    \E r \in Reqs :
        /\ req[r].ep = "coach"
        /\ Answered(req[r])
        /\ OutcomeOf(req[r], "provider") = "no_tip"
        /\ req[r].resp[1].data = "null"
        /\ Calls(req[r], "record") = 0
        /\ RowsOf(ledger, Caller, "coach", MonthYear(0)) > 0

\* C10: when the usage insert is refused after the provider call succeeded,
\* the handler still answers with its success response (200, or 202 for a
\* transcription start) carrying the result.
C10_RecordFailureSwallowed ==
    \A r \in Reqs :
        LET f == req[r]
        IN  OutcomeOf(f, "record") = "error" =>
            /\ Answered(f)
            /\ f.resp[1].success
            /\ f.resp[1].data = "result"
            /\ f.resp[1].code = ""
            /\ f.resp[1].status = IF f.ep = "transcribe" THEN 202 ELSE 200

\* an OCR request served although its usage row was refused
C10_Witness ==
    \E r \in Reqs :
        /\ req[r].ep = "ocr"
        /\ OutcomeOf(req[r], "record") = "error"
        /\ GaveResult(req[r])
        /\ req[r].stored = 0
        /\ BagCardinality(ledger) = req[r].size0

----------------------------------------------------------------------------
(* Properties of the coach endpoint *)

\* the outcome of the frame's last provider call ("" when it made none)
LastProvider(f) ==
    IF Calls(f, "provider") = 0 THEN ""
    ELSE LET last == CHOOSE i \in Steps(f) :
                        /\ f.trace[i].step = "provider"
                        /\ \A j \in Steps(f) : f.trace[j].step = "provider" => j <= i
         IN  f.trace[last].outcome

ProviderFailures == {"throw", "empty", "unparseable", "schema_invalid"}

\* C11: a coach request that passed authentication, the tier gate and body
\* validation and whose provider call throws (the abort of the 10 s timer
\* included), returns empty content, returns content that is not JSON or
\* returns a tip that fails the response schema is answered 200 with
\* success: true and data: null; no coach request that reached the provider
\* is answered with an error envelope.
C11_CoachGraceful ==
    \A r \in Reqs :
        LET f == req[r]
        IN  (f.ep = "coach" /\ Answered(f) /\ Calls(f, "provider") > 0) =>
            /\ f.resp[1].success
            /\ f.resp[1].status = 200
            /\ f.resp[1].code = ""
            /\ LastProvider(f) \in ProviderFailures => f.resp[1].data = "null"

\* a coach request whose provider call threw, answered data: null
C11_Witness ==
    \E r \in Reqs :
        /\ req[r].ep = "coach"
        /\ Answered(req[r])
        /\ [i \in Steps(req[r]) |-> req[r].trace[i].step] =
              <<"auth", "tier", "validate", "provider">>
        /\ LastProvider(req[r]) = "throw"
        /\ req[r].resp[1] = [status |-> 200, success |-> TRUE, code |-> "",
                             data |-> "null", details |-> FALSE, extra |-> <<>>]

----------------------------------------------------------------------------
(* Properties of the storage endpoints *)

\* the second path segment of a key names this user
OwnedBy(key, userId) ==
    /\ Len(SplitPath(key)) >= 2
    /\ SplitPath(key)[2] = IdString(userId)

\* C12: the delete-file handler calls the storage delete only for a key
\* whose second path segment is the caller's id; for a key whose second
\* segment is another user's id it answers 403 FORBIDDEN, makes no storage
\* call and leaves the bucket as it was.
C12_DeleteOwnOnly ==
    \A r \in Reqs :
        LET f == req[r]
        IN  f.ep = "delete-file" =>
            /\ (f.pc = "delete" \/ Calls(f, "delete") > 0) => OwnedBy(f.key, Caller)
            /\ (Answered(f) /\ Calls(f, "owner") > 0 /\ OwnedBy(f.key, OtherUser)) =>
                  /\ f.resp[1].status = 403
                  /\ f.resp[1].code = "FORBIDDEN"
                  /\ ~f.resp[1].success
                  /\ Calls(f, "delete") = 0
                  /\ bucket = f.bucket0

\* the other user's object asked for and refused; it is still in the bucket
C12_Witness ==
    \E r \in Reqs :
        /\ req[r].ep = "delete-file"
        /\ req[r].key = OtherObject
        /\ Answered(req[r])
        /\ req[r].resp[1].code = "FORBIDDEN"
        /\ OtherObject \in bucket

\* C13: when the caller owns the key and the backend reports NoSuchKey, the
\* delete-file handler answers with a success envelope whose message is not
\* the one of a completed deletion; any other failure of the storage call is
\* answered 500 SERVER_ERROR.
C13_AbsentIsSuccess ==
    \A r \in Reqs :
        LET f == req[r]
        IN  (f.ep = "delete-file" /\ Calls(f, "delete") > 0) =>
            /\ Answered(f)
            /\ OutcomeOf(f, "delete") = "NoSuchKey" =>
                  /\ f.resp[1].success
                  /\ f.resp[1].status = 200
                  /\ f.resp[1].data = "already_deleted"
                  /\ bucket = f.bucket0
            /\ OutcomeOf(f, "delete") = "ok" =>
                  /\ f.resp[1].success
                  /\ f.resp[1].data = "deleted"
            /\ OutcomeOf(f, "delete") = "error" =>
                  /\ ~f.resp[1].success
                  /\ f.resp[1].status = 500
                  /\ f.resp[1].code = "SERVER_ERROR"

\* the caller's object deleted by an earlier request and asked for again
C13_Witness ==
    \E r \in Reqs :
        /\ req[r].ep = "delete-file"
        /\ req[r].key = OwnObject
        /\ OwnObject \notin req[r].bucket0
        /\ OutcomeOf(req[r], "delete") = "NoSuchKey"
        /\ req[r].resp[1].success
        /\ req[r].resp[1].data = "already_deleted"

----------------------------------------------------------------------------
(* Properties of the transcription jobs *)

PollFrames == {req[r] : r \in {q \in Reqs : req[q].ep = "status"}}

StartFrames == {req[r] : r \in {q \in Reqs : req[q].ep = "transcribe"}}

\* the table holds a row for the job id that names the user
OwnsJob(userId, jobId) ==
    \E j \in jobs : j.job_id = jobId /\ j.user_id = userId

HasRecord(jobId) == \E j \in jobs : j.job_id = jobId

\* C14: the status handler calls the transcription provider, and answers
\* with a status or transcript, only when a row of transcription_jobs for the
\* job id names the authenticated caller.  Without such a row it answers 404
\* NOT_FOUND; with a row that names another user it answers 403 FORBIDDEN
\* (404 when the lookup itself fails); in both cases no result is fetched.
C14_PollOwnerOnly ==
    \A f \in PollFrames :
        /\ (f.pc \in {"fetch", "update"} \/ Calls(f, "fetch") > 0) =>
              OwnsJob(f.user, f.jobId)
        /\ (Answered(f) /\ f.resp[1].success) =>
              /\ Calls(f, "fetch") = 1
              /\ OwnsJob(f.user, f.jobId)
        /\ (Answered(f) /\ Calls(f, "lookup") > 0 /\ ~HasRecord(f.jobId)) =>
              /\ f.resp[1].status = 404
              /\ f.resp[1].code = "NOT_FOUND"
              /\ Calls(f, "fetch") = 0
        /\ (/\ Answered(f) /\ Calls(f, "lookup") > 0
            /\ HasRecord(f.jobId) /\ ~OwnsJob(f.user, f.jobId)) =>
              /\ Calls(f, "fetch") = 0
              /\ ~f.resp[1].success
              /\ f.resp[1].data = "absent"
              /\ IF OutcomeOf(f, "lookup") = "ok"
                 THEN f.resp[1].status = 403 /\ f.resp[1].code = "FORBIDDEN"
                 ELSE f.resp[1].status = 404 /\ f.resp[1].code = "NOT_FOUND"

\* the other user polls a job the caller started, and is refused
C14_Witness ==
    \E f \in PollFrames :
        /\ f.user = OtherUser
        /\ OwnsJob(Caller, f.jobId)
        /\ f.jobId \in provJobs
        /\ Answered(f)
        /\ f.resp[1].code = "FORBIDDEN"
        /\ Calls(f, "fetch") = 0

\* C15 as stated: every job of a start request answered 202 has its
\* ownership row, and the caller's poll of a started job is never answered
\* NOT_FOUND or FORBIDDEN
C15_AlwaysOwned ==
    /\ \A f \in StartFrames :
          (Answered(f) /\ f.resp[1].status = 202) => OwnsJob(Caller, f.jobId[1])
    /\ \A f \in PollFrames :
          (Answered(f) /\ f.user = Caller /\ f.jobId \in provJobs) =>
              f.resp[1].code \notin {"NOT_FOUND", "FORBIDDEN"}

\* the state part of C15
C15_State ==
    /\ \A f \in StartFrames :
          (Answered(f) /\ f.resp[1].status = 202) =>
              /\ Calls(f, "persist") = 1
              /\ f.jobId[1] \in provJobs
              /\ OutcomeOf(f, "persist") = "ok" => OwnsJob(Caller, f.jobId[1])
    /\ \A j \in jobs : j.job_id \in provJobs /\ j.user_id = Caller
    /\ \A f \in PollFrames :
          (Answered(f) /\ Calls(f, "lookup") > 0 /\ f.user = Caller) =>
              /\ (OwnsJob(Caller, f.jobId) /\ OutcomeOf(f, "lookup") = "ok") =>
                    f.resp[1].code \notin {"NOT_FOUND", "FORBIDDEN"}
              /\ ~HasRecord(f.jobId) => f.resp[1].code = "NOT_FOUND"

\* C15 (amended): a start request answered 202 has issued the insert of the
\* ownership row for its job before answering; when the insert is accepted
\* the row maps the job id to the caller and stays, and a poll of the job by
\* that user whose ownership lookup succeeds is not answered NOT_FOUND or
\* FORBIDDEN.  When the insert is refused the request is still answered 202,
\* no row exists, and polls of the job are answered NOT_FOUND.
C15_OwnedWhenStored ==
    /\ [](C15_State)
    /\ [][\A j \in jobs :
             \E k \in jobs' : k.job_id = j.job_id /\ k.user_id = j.user_id]_vars

\* the caller polls a job whose row was written and receives the transcript
C15_Witness ==
    \E f \in PollFrames :
        /\ f.user = Caller
        /\ OwnsJob(Caller, f.jobId)
        /\ Answered(f)
        /\ f.resp[1].success
        /\ f.resp[1].data = "transcript"

----------------------------------------------------------------------------
(* Further properties of the ledger functions and of the tier gate *)

\* the policy table has no nonzero cap for the feature and tier
Uncapped(apiType, tier) ==
    \/ apiType \notin DOMAIN RATE_LIMITS
    \/ tier \notin DOMAIN RATE_LIMITS[apiType]
    \/ RATE_LIMITS[apiType][tier] = 0

\* C16: for a feature tag that is not in the policy table, a cap of 0 or a
\* tier that the table does not list, checkRateLimit returns allowed=true,
\* remaining=-1, limit=0 whatever the store holds and whether or not the
\* store answers: the store is not asked.
C16_UncappedAllowed ==
    (lib.op = "check" /\ Uncapped(lib.api, lib.tier)) =>
        lib.result[1] = [allowed |-> TRUE, remaining |-> -1, limit |-> 0]

\* a tier the table does not list, a failing store, and more rows than any
\* cap of the feature
C16_Witness ==
    /\ lib.op = "check"
    /\ lib.api = "ocr"
    /\ lib.tier = "free"
    /\ lib.outcome = "error"
    /\ RowsOf(ledger, lib.user, lib.api, lib.month) > RATE_LIMITS["ocr"]["basic"]
    /\ lib.result[1].allowed
    /\ lib.result[1].remaining = -1

\* the caller's trial expiry lies strictly after the instant of the call
TrialRunning ==
    /\ profiles[lib.user].trial_ends_at # <<>>
    /\ profiles[lib.user].trial_ends_at[1] > lib.at

\* C17 as stated: in a running trial checkUserTier decides as for the top
\* tier, business, and outside a trial as for the stored tier
C17_TrialIsTopTier ==
    LibTierChecked =>
        /\ TrialRunning => (lib.result[1].allowed <=> "business" \in lib.required)
        /\ ~TrialRunning =>
              (lib.result[1].allowed <=> profiles[lib.user].tier \in lib.required)

\* the state part of C17
C17_State ==
    LibTierChecked =>
        /\ TrialRunning => (lib.result[1].allowed <=> "pro" \in lib.required)
        /\ ~TrialRunning =>
              (lib.result[1].allowed <=> profiles[lib.user].tier \in lib.required)
        /\ lib.result[1].profile = <<profiles[lib.user]>>

\* C17 (amended): in a running trial checkUserTier decides as for the tier
\* pro whatever the stored tier is (basic, pro or business), so a running
\* trial never denies what pro may use; outside a trial it decides by the
\* stored tier.  The promotion is computed from the profile and the clock at
\* each call: the profile returned is the stored one and the profiles table
\* is never written.
C17_TrialIsPro == [](C17_State) /\ [][profiles' = profiles]_vars

\* a stored business user in a running trial passes a gate that lists pro
\* only
C17_Witness ==
    /\ LibTierChecked
    /\ profiles[lib.user].tier = "business"
    /\ TrialRunning
    /\ lib.required = {"pro"}
    /\ lib.result[1].allowed
    /\ lib.result[1].profile[1].tier = "business"

----------------------------------------------------------------------------
(* Properties of the response bodies *)

\* The JSON body of a response: the body the token handler builds, or the
\* body the other handlers build from success, data and error
JsonBody(resp) ==
    IF "body" \in DOMAIN resp THEN resp.body
    ELSE IF resp.success THEN [success |-> TRUE, data |-> resp.data]
    ELSE [success |-> FALSE,
          error |-> JsonObject({"message", "code"}
                       \cup (IF resp.details THEN {"details"} ELSE {})
                       \cup (IF resp.extra # <<>> THEN {"remaining", "limit"}
                             ELSE {}))]

\* one of the two shapes of the envelope
IsEnvelope(body) ==
    \/ /\ body.success = TRUE
       /\ DOMAIN body = {"success", "data"}
    \/ /\ body.success = FALSE
       /\ DOMAIN body = {"success", "error"}
       /\ body.error.kind = "object"
       /\ {"message", "code"} \subseteq body.error.fields

\* C18: every response of every endpoint is {success: true, data} without
\* error, or {success: false, error: {message, code, ...}} without data;
\* none omits both data and error and none carries both.
C18_Envelope ==
    \A r \in DOMAIN req :
        Answered(req[r]) => IsEnvelope(JsonBody(req[r].resp[1]))

\* the rows of the error taxonomy: code and HTTP status
ErrorTaxonomy ==
    { <<"AUTH_ERROR", 401>>, <<"TIER_ERROR", 403>>, <<"FORBIDDEN", 403>>,
      <<"RATE_LIMIT_EXCEEDED", 429>>, <<"VALIDATION_ERROR", 400>>,
      <<"NOT_FOUND", 404>>, <<"AI_ERROR", 500>>, <<"PARSE_ERROR", 500>>,
      <<"RATE_LIMIT", 429>>, <<"SERVER_ERROR", 500>> }

\* the error responses that have been sent
ErrorResponses ==
    {req[r].resp[1] : r \in {q \in DOMAIN req :
                                Answered(req[q]) /\ ~req[q].resp[1].success}}

\* C19: the code and the HTTP status of every error response are a row of
\* the error taxonomy: no code outside the table, no table code with another
\* status.
C19_Taxonomy ==
    \A resp \in ErrorResponses : <<resp.code, resp.status>> \in ErrorTaxonomy

\* the endpoints whose catch block has a branch for the provider's rate limit
RateLimitEndpoints == {"ocr", "analyze", "email"}

\* the request ended in the handler's catch block on a provider error that
\* the provider sent with status 429
EndedOnRateLimit(f) ==
    /\ f.ep \in RateLimitEndpoints
    /\ Answered(f)
    /\ LastProvider(f) = "throw"
    /\ f.err # <<>>
    /\ f.err[1].status = 429

\* C20: when the provider call fails with the provider's own rate-limit
\* error, the OCR, analyze and email handlers answer 429 with code
\* RATE_LIMIT, never RATE_LIMIT_EXCEEDED and never a 500, and no usage
\* record is written.
C20_UpstreamRateLimit ==
    \A r \in Reqs :
        LET f == req[r]
        IN  EndedOnRateLimit(f) =>
            /\ f.resp[1].status = 429
            /\ f.resp[1].code = "RATE_LIMIT"
            /\ Calls(f, "record") = 0
            /\ BagCardinality(ledger) = f.size0

----------------------------------------------------------------------------
(* Properties of the analyze retry loop *)

\* the frames of the analyze handler
AnalyzeFrames == {req[r] : r \in {q \in Reqs : req[q].ep = "analyze"}}

\* the frame's last trace entry is a provider call that threw
EndedOnThrow(f) ==
    /\ f.trace # <<>>
    /\ f.trace[Len(f.trace)].step = "provider"
    /\ f.trace[Len(f.trace)].outcome = "throw"

\* C21 as stated: an analyze request makes at most 2 provider calls
C21_TwoAttempts ==
    \A f \in AnalyzeFrames : Calls(f, "provider") <= 2

\* the state part of C21
C21_State ==
    \A f \in AnalyzeFrames :
        /\ Calls(f, "provider") <= maxRetries + 1
        /\ f.attempt <= maxRetries
        /\ f.pc = "backoff" => f.attempt < maxRetries
        /\ f.pc = "provider" => Calls(f, "provider") = f.attempt
        /\ f.waits = [k \in 1 .. f.attempt |-> k]
        /\ \A i \in Steps(f) :
              (f.trace[i].step = "provider" /\ f.trace[i].ok) =>
                  \A j \in Steps(f) : f.trace[j].step = "provider" => j <= i
        /\ (Answered(f) /\ EndedOnThrow(f)) =>
              f.resp[1] = CatchAll("analyze", f.err[1])

\* a step of the loop leaves it or brings it nearer its end
C21_Progress ==
    \A r \in Reqs :
        (req[r].ep = "analyze" /\ req[r].pc \in {"provider", "backoff"}
            /\ req'[r] # req[r]) =>
            \/ req'[r].pc \notin {"provider", "backoff"}
            \/ /\ req[r].pc = "provider"
               /\ req'[r].pc = "backoff"
               /\ req'[r].attempt = req[r].attempt
            \/ /\ req[r].pc = "backoff"
               /\ req'[r].pc = "provider"
               /\ req'[r].attempt = req[r].attempt + 1

\* C21 (amended): an analyze request makes at most 3 provider calls (the
\* first and maxRetries = 2 retries) when the provider fails with transient
\* errors; the wait before retry k is k seconds; the loop ends with the
\* first call that returns, after which no further call is made, or after
\* the last allowed call by answering from the last error thrown.  Every
\* step of the loop either leaves it or raises the attempt counter, which
\* never exceeds maxRetries, so the loop terminates.
C21_ThreeAttempts == [](C21_State) /\ [][C21_Progress]_vars

\* three provider calls that all threw, with waits of 1 and 2 seconds
C21_Witness ==
    \E f \in AnalyzeFrames :
        /\ Answered(f)
        /\ Calls(f, "provider") = 3
        /\ f.waits = <<1, 2>>
        /\ EndedOnThrow(f)
        /\ ~f.resp[1].success

\* the error surfaced had status 401 or 429
SurfacedNoRetry(f) ==
    /\ f.err # <<>>
    /\ f.err[1].status \in {401, 429}

\* C22 as stated: a request whose provider call failed with 401 or 429 has
\* issued exactly one provider call
C22_ExactlyOneCall ==
    \A f \in AnalyzeFrames : SurfacedNoRetry(f) => Calls(f, "provider") = 1

\* C22 (amended): when a provider call of the analyze handler fails with
\* status 401 or 429, no retry is made: no wait and no further provider call
\* follows it, the request is answered at once from that error and no usage
\* is recorded.  The failing call is the only call of the request when it is
\* the first attempt; it is the second or third when transient failures came
\* before it.
C22_NoRetry ==
    \A f \in AnalyzeFrames :
        SurfacedNoRetry(f) =>
            /\ Answered(f)
            /\ EndedOnThrow(f)
            /\ f.resp[1] = CatchAll("analyze", f.err[1])
            /\ Len(f.waits) = Calls(f, "provider") - 1
            /\ Calls(f, "record") = 0

\* a first call that failed with 401, surfaced without a wait
C22_Witness ==
    \E f \in AnalyzeFrames :
        /\ SurfacedNoRetry(f)
        /\ f.err[1].status = 401
        /\ Answered(f)
        /\ Calls(f, "provider") = 1
        /\ f.waits = <<>>
        /\ f.resp[1].status = 500

----------------------------------------------------------------------------
(* Properties of getUsageStats *)

LibStats == lib.op = "stats"

\* C23: when its usage query fails getUsageStats returns the empty mapping,
\* never a partial one; otherwise the mapping has an entry for every feature
\* tag of the policy table and for no other tag.
C23_StatsAllOrNothing ==
    LibStats =>
        /\ lib.outcome = "error" => lib.result[1] = <<>>
        /\ lib.outcome = "error" => DOMAIN lib.result[1] = {}
        /\ lib.outcome = "ok" => DOMAIN lib.result[1] = DOMAIN RATE_LIMITS

\* a failed query over a store that holds rows of the caller in the month
C23_Witness ==
    /\ LibStats
    /\ lib.outcome = "error"
    /\ lib.before > 0
    /\ lib.result[1] = <<>>

\* the instants of the month bucket the last call read
InstantsOf(monthYear) == {t \in 0 .. MaxNow : MonthYear(t) = monthYear}

\* C29: for the caller, every tier and every feature tag of the policy
\* table, over the ledger as it stands and when neither query fails,
\* getUsageStats and checkRateLimit agree.  For a nonzero cap stats.used is
\* the count checkRateLimit compares with the cap, stats.limit is its limit,
\* stats.remaining is its remaining, and it allows exactly when
\* stats.remaining > 0; for an unlimited cap both report remaining = -1.
C29_StatsAgree ==
    (LibStats /\ lib.outcome = "ok") =>
        \A a \in DOMAIN RATE_LIMITS, t \in InstantsOf(lib.month) :
            LET stats == lib.result[1][a]
                check == CheckRateLimit(ledger, lib.user, lib.tier, a, t, "ok")
            IN  IF TierLimit(a, lib.tier) # 0
                THEN /\ stats.used = CountUsage(ledger, lib.user, a, lib.month)
                     /\ stats.limit = check.limit
                     /\ stats.remaining = check.remaining
                     /\ check.allowed <=> stats.remaining > 0
                ELSE /\ stats.remaining = -1
                     /\ check.remaining = -1
                     /\ check.allowed

\* a basic caller at the cap of the feature, with rows of last month and of
\* another user in the store: no remaining use and no admission
C29_Witness ==
    /\ LibStats
    /\ lib.outcome = "ok"
    /\ lib.tier = "basic"
    /\ lib.api = "transcribe"
    /\ lib.month = MonthYear(0)
    /\ lib.result[1]["transcribe"].used = TierLimit("transcribe", "basic")
    /\ lib.result[1]["transcribe"].remaining = 0
    /\ lib.result[1]["ocr"].used = OtherUsed
    /\ ~CheckRateLimit(ledger, lib.user, lib.tier, "transcribe", 0, "ok").allowed

----------------------------------------------------------------------------
(* Properties of the token endpoint *)

\* the token requests that were answered with the key
TokenGrants ==
    {req[r] : r \in {q \in DOMAIN req :
                        /\ req[q].ep = "token"
                        /\ Answered(req[q])
                        /\ req[q].resp[1] = TokenGranted}}

\* C24: the token endpoint issues a token only to authenticated users whose
\* effective tier is pro or business, a running trial counting as pro; a
\* basic or free user without a trial receives no token.
C24_TokenProOnly ==
    \A f \in TokenGrants :
        /\ Calls(f, "auth") = 1
        /\ OutcomeOf(f, "auth") = "ok"
        /\ f.tier \in {"pro", "business"}

----------------------------------------------------------------------------
(* Properties of the policy table *)

\* the features with a monthly cap for the basic tier
MeteredFeatures == {"transcribe", "ocr", "analyze", "email"}

\* C25: the policy table gives the basic tier a monthly cap of 3 for each of
\* transcribe, ocr, analyze and email and gives pro and business the cap 0
\* (unlimited) for them, and a check made for a basic user reports that cap
\* as its limit at every instant of the run.
C25_BasicCapThree ==
    /\ \A a \in MeteredFeatures :
          /\ RATE_LIMITS[a]["basic"] = 3
          /\ RATE_LIMITS[a]["pro"] = 0
          /\ RATE_LIMITS[a]["business"] = 0
    /\ (LibChecked /\ lib.api \in MeteredFeatures /\ lib.tier = "basic") =>
          lib.result[1].limit = 3

----------------------------------------------------------------------------
(* Further properties of the storage endpoints *)

\* C26: the download-url handler presigns only for a key whose second path
\* segment is the caller's id; for every other key, a key with fewer than
\* two segments included, it answers 403 FORBIDDEN and presigns nothing.
C26_DownloadOwnOnly ==
    \A r \in Reqs :
        LET f == req[r]
        IN  f.ep = "download-url" =>
            /\ (f.pc = "sign" \/ Calls(f, "sign") > 0) => OwnedBy(f.key, Caller)
            /\ (Answered(f) /\ f.resp[1].success) =>
                  Calls(f, "sign") = 1 /\ OwnedBy(f.key, Caller)
            /\ (Answered(f) /\ Calls(f, "owner") > 0 /\ ~OwnedBy(f.key, Caller)) =>
                  /\ f.resp[1].status = 403
                  /\ f.resp[1].code = "FORBIDDEN"
                  /\ ~f.resp[1].success
                  /\ Calls(f, "sign") = 0

\* a key of one segment, refused
C26_Witness ==
    \E r \in Reqs :
        /\ req[r].ep = "download-url"
        /\ Len(SplitPath(req[r].key)) = 1
        /\ Answered(req[r])
        /\ Calls(req[r], "owner") = 1
        /\ req[r].resp[1].code = "FORBIDDEN"

----------------------------------------------------------------------------
(* Properties of the assistant query endpoint *)

QueryFrames == {req[r] : r \in {q \in DOMAIN req : req[q].ep = "query"}}

\* the response the inner try or catch decided, whatever the deletion did
DecidedResponse(f) ==
    IF OutcomeOf(f, "messages") = "ok" THEN Success(200, "response")
    ELSE QueryFailed

\* the state part of C27
C27_State ==
    \A f \in QueryFrames :
        /\ Calls(f, "delete") <= 1
        /\ Calls(f, "thread") <= 1
        /\ f.attempts <= maxAttempts
        /\ f.threadId # <<>> <=> OutcomeOf(f, "thread") = "ok"
        /\ Calls(f, "delete") = 1 => f.threadId # <<>> /\ Answered(f)
        /\ (Answered(f) /\ f.threadId # <<>>) =>
              /\ Calls(f, "delete") = 1
              /\ f.trace[Len(f.trace)].step = "delete"
              /\ f.resp[1] = DecidedResponse(f)
              /\ OutcomeOf(f, "delete") = "ok" => f.threadId[1] \notin threads
        /\ (Answered(f) /\ f.threadId = <<>>) => Calls(f, "delete") = 0

\* a step that makes a delete attempt adds 1 to the counter of its outcome
\* and leaves the other; no other step changes a counter
C27_Counters ==
    LET attempts == {r \in Reqs : Calls(req'[r], "delete") > Calls(req[r], "delete")}
        done == {r \in attempts : OutcomeOf(req'[r], "delete") = "ok"}
    IN  /\ threadCleanupSuccessCount' =
              threadCleanupSuccessCount + Cardinality(done)
        /\ threadCleanupFailureCount' =
              threadCleanupFailureCount + Cardinality(attempts \ done)

\* C27: every thread a query request created gets exactly one delete attempt
\* before the handler returns, whether the query succeeded, the run ended
\* failed, expired or cancelled, a call threw, or polling gave up after 10
\* status checks; a request that created no thread makes none.  A failed
\* delete adds 1 to the failure counter only and the response is the one
\* decided before the deletion.
C27_ThreadCleanup == [](C27_State) /\ [][C27_Counters]_vars

\* polling gave up after 10 status checks, the deletion failed, and the
\* answer is the 500 decided before it
C27_Witness ==
    \E f \in QueryFrames :
        /\ Answered(f)
        /\ f.attempts = maxAttempts
        /\ Calls(f, "retrieve") = maxAttempts
        /\ f.runStatus = "in_progress"
        /\ OutcomeOf(f, "delete") = "throw"
        /\ f.threadId[1] \in threads
        /\ threadCleanupFailureCount = 1
        /\ threadCleanupSuccessCount = 0
        /\ f.resp[1] = QueryFailed

----------------------------------------------------------------------------
(* Properties of the quota check under a trial *)

\* the tier the handlers pass to checkRateLimit: profile?.tier || 'basic'
StoredQuotaTier == IF profiles[Caller].tier # "" THEN profiles[Caller].tier
                   ELSE "basic"

\* C28: the quota check of the OCR, analyze, email and transcription-start
\* handlers is made with the stored tier of the profile, not with the tier a
\* trial promotes to.  A stored-basic user in a trial passes the tier gate
\* and is still held to the basic monthly cap: checked at the cap or above,
\* the request is answered 429 RATE_LIMIT_EXCEEDED and reaches no provider.
C28_QuotaByStoredTier ==
    \A r \in Reqs :
        LET f == req[r]
            C == TierLimit(f.ep, StoredQuotaTier)
        IN  (f.ep \in QuotaEndpoints /\ f.seen # <<>>) =>
            /\ f.tier = profiles[Caller].tier
            /\ OutcomeOf(f, "quota") = "ok" =>
                  f.check[1].limit = C
            /\ (C # 0 /\ OutcomeOf(f, "quota") = "ok") =>
                  (f.check[1].allowed <=> f.seen[1].rows < C)
            /\ (C # 0 /\ f.seen[1].rows >= C) =>
                  /\ Answered(f)
                  /\ f.resp[1].status = 429
                  /\ f.resp[1].code = "RATE_LIMIT_EXCEEDED"
                  /\ f.resp[1].extra = <<0, C>>
                  /\ Calls(f, "provider") = 0

\* a stored-basic user whose trial still runs, promoted at the gate and
\* refused at the basic cap
C28_Witness ==
    \E r \in Reqs :
        /\ req[r].ep = "ocr"
        /\ profiles[Caller].tier = "basic"
        /\ IsInTrial(profiles[Caller], now)
        /\ OutcomeOf(req[r], "tier") = "ok"
        /\ OutcomeOf(req[r], "quota") = "ok"
        /\ req[r].seen # <<>>
        /\ req[r].seen[1].rows = TierLimit("ocr", "basic")
        /\ Answered(req[r])
        /\ req[r].resp[1].code = "RATE_LIMIT_EXCEEDED"

----------------------------------------------------------------------------
(* Properties of presigning *)

\* the frames of the OCR and transcription-start handlers
PresignFrames ==
    {req[r] : r \in {q \in DOMAIN req : req[q].ep \in PresignEndpoints}}

\* C30: the OCR and transcription-start handlers presign whatever bucket key
\* the submitted URL spells, without comparing its owner segment with the
\* caller: every valid body with a bucket URL reaches generateDownloadUrl
\* for its key, owned by the caller or not, and none is answered FORBIDDEN.
\* The download-url handler, beside them, presigns only keys of the caller.
C30_PresignUnrestricted ==
    /\ \A f \in PresignFrames :
          /\ (OutcomeOf(f, "validate") = "valid" /\ f.url.s3) =>
                \/ f.pc = "presign"
                \/ /\ Calls(f, "presign") = 1
                   /\ OutcomeOf(f, "presign") = "ok" => f.signed = {UrlKey(f.url)}
                   /\ OutcomeOf(f, "presign") = "error" => f.signed = {}
          /\ ~f.url.s3 => Calls(f, "presign") = 0 /\ f.pc # "presign"
          /\ Answered(f) => f.resp[1].code # "FORBIDDEN"
    /\ \A r \in DOMAIN req :
          (req[r].ep = "download-url" /\ Calls(req[r], "sign") > 0) =>
              OwnedBy(req[r].key, Caller)

\* the caller submits the URL of the other user's object to the OCR handler:
\* the object is presigned and the request is served, while the download-url
\* handler has refused the same key
C30_Witness ==
    /\ \E f \in PresignFrames :
          /\ f.ep = "ocr"
          /\ UrlKey(f.url) = OtherObject
          /\ OwnedBy(OtherObject, OtherUser)
          /\ f.signed = {OtherObject}
          /\ GaveResult(f)
    /\ \E r \in DOMAIN req :
          /\ req[r].ep = "download-url"
          /\ req[r].key = OtherObject
          /\ Answered(req[r])
          /\ req[r].resp[1].code = "FORBIDDEN"

====
